---- MODULE Spec2Model ----
(***************************************************************************)
(* Whale Interactive Feedback: the exchange protocol handler               *)
(* (src/src/composables/useMcpHandler.ts, src/src/App.vue, the feedback    *)
(* store of src/src/stores/feedback.ts), the screen-capture machine       *)
(* (useScreenshot in src/src/composables/useDragDrop.ts,                   *)
(* src/src/components/ScreenshotOverlay.vue) and the image intake          *)
(* (src/src/composables/useImageHandler.ts, the paste and drop handlers).  *)
(*                                                                         *)
(* Conventions.  A JavaScript string is a sequence of one-character        *)
(* strings; "" is << >>.  A nullable value is a sequence of length 0       *)
(* (null) or 1 (the value).  JavaScript's Set<number> of selected option   *)
(* indices is a duplicate-free sequence in insertion order, with indices   *)
(* counted from 1.  Every `await` of the source is a point where another   *)
(* handler may run, so each asynchronous handler is a coroutine with a     *)
(* position (pc); the code between two awaits is one atomic action.        *)
(***************************************************************************)
EXTENDS Naturals, Integers, Sequences, FiniteSets, Bags, TLC

VARIABLES
  \* ---- environment of the exchange session
  cliArgs,              \* what the backend's get_cli_args returns
  requestOnDisk,        \* the request file as read_mcp_request parses it, << >> if unreadable
  \* ---- useMcpHandler.ts module state
  isMcpMode, mcpRequestFile, mcpRequest,
  \* ---- App.vue
  mountPc,              \* position of onMounted
  mcpMessage, mcpPredefinedOptions,
  toast,                \* toastMessage / toastType of the last showToastMessage
  isMinimized,          \* useWindowControl: window minimized by handleAfterSubmit
  \* ---- feedback store
  text, predefinedOptions, selectedOptions, images, fileReferences,
  \* ---- in-flight submit / cancel handlers and the backend's view of them
  calls,                \* bag of handler invocations that reached an await
  lastWrite,            \* arguments of the latest write_response_file invocation
  writeCount,           \* number of write_response_file invocations so far
  terminated,           \* exit_app has ended the process
  \* ---- screen capture: useScreenshot + ScreenshotOverlay.vue + the window
  capPlatform,          \* platform() of the machine
  overlayVisible,       \* App.vue showScreenshotOverlay, the overlay's `visible` prop
  capState,             \* ScreenshotOverlay state: idle | capturing | selecting
  capPc,                \* position of startCapture and of the calls it awaits
  isCapturing, capError, localError, screenshotData,
  windowVisible,        \* the application window is shown
  windowChrome,         \* its decorations, always-on-top and maximized flags
  capRun,               \* what the latest capture attempt did to the window
  isSelecting, selectionStart, selectionEnd,     \* ScreenshotOverlay: the drag
  confirm,              \* the confirmSelection invocation in flight
  cancelPc,             \* position of the cancel() invocation in flight
  selRun,               \* what confirm and cancel did to the latest selection
  acq,                  \* the createImageFrom* invocation in flight
  acqResult,            \* how the latest createImageFrom* invocation ended
  \* ---- file references: useFileHandler, FileSelectModal.vue, the HTML5 drop
  call,                 \* a path function applied on its own: its input and its result
  showFileSelectModal,  \* App.vue: the file selection modal is shown
  selectedFiles,        \* FileSelectModal selectedFiles
  errors,               \* FileSelectModal errors
  dialogPc,             \* position of FileSelectModal handleSelectFiles
  drop                  \* the onHtml5Drop invocation and the items it started

exchangeVars == <<cliArgs, requestOnDisk, isMcpMode, mcpRequestFile, mcpRequest,
                  mountPc, mcpMessage, mcpPredefinedOptions, toast, isMinimized,
                  text, predefinedOptions, selectedOptions, images, fileReferences,
                  calls, lastWrite, writeCount, terminated>>

selectVars == <<isSelecting, selectionStart, selectionEnd, confirm, cancelPc, selRun>>

captureVars == <<capPlatform, overlayVisible, capState, capPc, isCapturing, capError,
                 localError, screenshotData, windowVisible, windowChrome, capRun,
                 selectVars>>

modalVars == <<showFileSelectModal, selectedFiles, errors, dialogPc>>

fileVars == <<call, modalVars, drop>>

intakeVars == <<acq, acqResult, fileVars>>

vars == <<exchangeVars, captureVars, intakeVars>>

\* ------------------------------------------------------------------ bounds
\* submit / cancel presses that reach an await, per process
MaxCalls == 2
\* images plus file references the user attaches, per process
MaxAttach == 1

\* ------------------------------------------------------------------ strings
None == << >>
Some(x) == <<x>>

\* String.prototype.trim strips these (the subset of white space the inputs use)
IsSpace(c) == c \in {" ", "\n", "\t"}

RECURSIVE TrimStart(_)
TrimStart(s) ==
  IF s = << >> THEN s
  ELSE IF IsSpace(Head(s)) THEN TrimStart(Tail(s)) ELSE s

RECURSIVE TrimEnd(_)
TrimEnd(s) ==
  IF s = << >> THEN s
  ELSE IF IsSpace(s[Len(s)]) THEN TrimEnd(SubSeq(s, 1, Len(s) - 1)) ELSE s

Trim(s) == TrimEnd(TrimStart(s))

\* Array.prototype.join
RECURSIVE Join(_, _)
Join(parts, sep) ==
  IF parts = << >> THEN << >>
  ELSE IF Len(parts) = 1 THEN parts[1]
  ELSE parts[1] \o sep \o Join(Tail(parts), sep)

\* index of the first occurrence of pat in s, 0 if there is none
FirstIndexOf(s, pat) ==
  LET hits == { i \in 1..Len(s) :
                  /\ i + Len(pat) - 1 <= Len(s)
                  /\ SubSeq(s, i, i + Len(pat) - 1) = pat }
  IN IF hits = {} THEN 0 ELSE CHOOSE i \in hits : \A j \in hits : i <= j

\* String.prototype.replace with a string pattern: the first occurrence only
Replace(s, pat, rep) ==
  LET i == FirstIndexOf(s, pat)
  IN IF i = 0 THEN s
     ELSE SubSeq(s, 1, i - 1) \o rep \o SubSeq(s, i + Len(pat), Len(s))

\* Math.round(n / d) for n >= 0, d > 0
Round(n, d) == (2 * n + d) \div (2 * d)

Max(a, b) == IF a >= b THEN a ELSE b

\* ------------------------------------------------------------------ inputs
\* the fixed markers of sendResponse's path derivation
RequestMarker == <<"m","c","p","_","r","e","q","u","e","s","t","_">>
ResponseMarker == <<"m","c","p","_","r","e","s","p","o","n","s","e","_">>

Json == <<".","j","s","o","n">>
\* /t/mcp_request_42.json
PathPlain == <<"/","t","/">> \o RequestMarker \o <<"4","2">> \o Json
\* /mcp_request_d/mcp_request_42.json : the marker also occurs in a directory name
PathMarkerDir == <<"/">> \o RequestMarker \o <<"d","/">> \o RequestMarker \o <<"4","2">> \o Json
\* /t/req.json : a request file whose name does not carry the marker
PathNoMarker == <<"/","t","/","r","e","q">> \o Json

Continue == <<"C","o","n","t","i","n","u","e">>
PaddedNo == <<" ","N","o">>
Ok == <<"o","k">>

\* PopupRequest records the request file may hold
RequestWithOptions ==
  [id |-> "42", message |-> Some("Proceed?"), predefined_options |-> Some(<<Continue, PaddedNo>>)]
RequestNoOptions ==
  [id |-> "7", message |-> None, predefined_options |-> None]
RequestOneOption ==
  [id |-> "42", message |-> Some("Proceed?"), predefined_options |-> Some(<<Continue>>)]

\* App.vue's demo content; the ten demo options are cut to two
DemoMessage == "demo"
DemoOptions == << <<"g","o">>, <<"f","i","x">> >>

\* CliArgs values get_cli_args may return (a launch with both the file and the flag
\* behaves as the launch with the file alone)
NoArgs == [mcp_request_file |-> None, mcp_mode |-> FALSE]
CliArgsSet ==
  { NoArgs,
    [mcp_request_file |-> None, mcp_mode |-> TRUE],
    [mcp_request_file |-> Some(<< >>), mcp_mode |-> FALSE],
    [mcp_request_file |-> Some(PathPlain), mcp_mode |-> FALSE] }

\* what the user may type into the textarea
TextInputs == { << >>, Ok }
\* what the textarea may hold when a content scenario starts
RichTexts == { << >>, <<" ">>, Ok, <<" ","o","k","\n">> }

\* an ImagePreview and a FileReference of the feedback store
Image1 == [id |-> "img1", data |-> "iVBOR", mimeType |-> "image/png"]
File1 == [id |-> "file1", displayName |-> "@a.txt", path |-> "/a.txt", isDirectory |-> FALSE]

\* a JavaScript truthiness test of a nullable string
Truthy(optStr) == optStr # None /\ optStr[1] # << >>

\* ------------------------------------------------------------------ exchange handler: functions
\* mutant of IsMcpModeOf: the double negation written as a single one
IsMcpModeNegated(args) == args.mcp_mode \/ ~Truthy(args.mcp_request_file)

\* checkMcpMode: isMcpMode.value = args.mcp_mode || !!args.mcp_request_file
IsMcpModeOf(args) == args.mcp_mode \/ Truthy(args.mcp_request_file)

\* checkMcpMode: mcpRequestFile.value = args.mcp_request_file || null
RequestFileOf(args) == IF Truthy(args.mcp_request_file) THEN args.mcp_request_file ELSE None

\* cancelRequest: if (mcpRequest.value && mcpRequestFile.value)
RequestActive == mcpRequest # None /\ mcpRequestFile # None

\* mutant of SendRefused: the guard forgets the request
SendRefusedFileOnly == mcpRequestFile = None

\* sendResponse: if (!mcpRequestFile.value || !mcpRequest.value) throw 'No MCP request active'
SendRefused == mcpRequestFile = None \/ mcpRequest = None

\* sendResponse: mcpRequestFile.value.replace('mcp_request_', 'mcp_response_')
ResponsePath(requestPath) == Replace(requestPath, RequestMarker, ResponseMarker)

\* mutant of SelectedTexts: every rendered option is reported
SelectedTextsAll == predefinedOptions

\* submitFeedback (App.vue): Array.from(selectedOptions).map(i => predefinedOptions[i]).filter(Boolean)
SelectedTexts ==
  LET picked == [k \in 1..Len(selectedOptions) |->
                   IF selectedOptions[k] \in 1..Len(predefinedOptions)
                   THEN predefinedOptions[selectedOptions[k]] ELSE << >>]
      NonEmpty(t) == t # << >>
  IN SelectSeq(picked, NonEmpty)

\* mutant of CombinedText: the free text is put before the selected texts
CombinedTextFirst(selectedTexts, rawText) ==
  LET NonEmpty(t) == Len(t) > 0
  IN Join(SelectSeq(<<Trim(rawText)>> \o selectedTexts, NonEmpty), <<"\n">>)

\* submitFeedback (App.vue): [...selectedTexts, text.trim()].filter(t => t.length > 0).join('\n')
CombinedText(selectedTexts, rawText) ==
  LET NonEmpty(t) == Len(t) > 0
  IN Join(SelectSeq(selectedTexts \o <<Trim(rawText)>>, NonEmpty), <<"\n">>)

\* submitFeedback (App.vue): the wire shape of the store's images and file references
WireImages == [k \in 1..Len(images) |->
                 [data |-> images[k].data, mime_type |-> images[k].mimeType]]
WireFileRefs == [k \in 1..Len(fileReferences) |->
                   [display_name |-> fileReferences[k].displayName,
                    path |-> fileReferences[k].path,
                    is_directory |-> fileReferences[k].isDirectory]]

\* mutant of UserInputOf: the empty string is not turned into null
UserInputNotNulled(userInput) == Some(Trim(userInput))

\* buildResponse: user_input is userInput.trim() || null
UserInputOf(userInput) ==
  LET t == Trim(userInput) IN IF t = << >> THEN None ELSE Some(t)

\* mutant of BuildResponse: the response does not take the id of the loaded request
BuildResponseWithoutId(userInput, selectedTexts, imgs, fileRefs) ==
  [request_id |-> "",
   user_input |-> UserInputOf(userInput),
   selected_options |-> selectedTexts,
   images |-> imgs,
   file_references |-> fileRefs,
   cancelled |-> FALSE]

\* buildResponse: request_id is mcpRequest.value?.id || ''
BuildResponse(userInput, selectedTexts, imgs, fileRefs) ==
  [request_id       |-> IF mcpRequest # None THEN mcpRequest[1].id ELSE "",
   user_input       |-> UserInputOf(userInput),
   selected_options |-> selectedTexts,
   images           |-> imgs,
   file_references  |-> fileRefs,
   cancelled        |-> FALSE]

\* mutant of CancelResponse: the cancellation carries the accumulated attachments
CancelResponseWithAttachments ==
  [request_id       |-> mcpRequest[1].id,
   user_input       |-> None,
   selected_options |-> << >>,
   images           |-> WireImages,
   file_references  |-> WireFileRefs,
   cancelled        |-> TRUE]

\* cancelRequest: the response of a cancellation
CancelResponse ==
  [request_id       |-> mcpRequest[1].id,
   user_input       |-> None,
   selected_options |-> << >>,
   images           |-> << >>,
   file_references  |-> << >>,
   cancelled        |-> TRUE]

\* ------------------------------------------------------------------ exchange handler: coroutines
\* A handler invocation that reached an await:
\*   kind  : "submit" | "cancel"
\*   pc    : "write"  awaiting write_response_file      (sendResponse)
\*           "flush"  awaiting the 100 ms timer         (sendResponse)
\*           "close"  awaiting the 50 ms timer          (closePopup)
\*           "exit"   awaiting exit_app                 (closePopup)
\*           "done"   returned normally
\*           "failed" rejected; the error went to App.vue's catch
\*   write : "none" | "pending" | "ok" | "err"  its write_response_file call
\*   exit  : it has invoked exit_app
\*   req   : the request the handler found loaded when it started (nullable id)
NewCall(kind, pc, write) ==
  [kind |-> kind, pc |-> pc, write |-> write, exit |-> FALSE,
   req |-> IF RequestActive THEN Some(mcpRequest[1].id) ELSE None]

Calls == BagToSet(calls)
Resume(c, d) == (calls (-) SetToBag({c})) (+) SetToBag({d})
CanStartCall == BagCardinality(calls) < MaxCalls

\* mutant of PcAfterInvokeWrite: the write is not awaited, closePopup starts at once
PcWriteNotAwaited == "close"

\* sendResponse: where the handler waits once write_response_file is invoked
PcAfterInvokeWrite == "write"
\* sendResponse, catch: a failed write is rethrown to the caller
PcAfterWriteError == "failed"
\* mutant of AfterCloseDelay: closePopup returns without invoking exit_app
AfterCloseDelayNoExit(c) == [c EXCEPT !.pc = "done"]

\* closePopup: after the 50 ms timer the handler invokes exit_app
AfterCloseDelay(c) == [c EXCEPT !.pc = "exit", !.exit = TRUE]

\* sendResponse up to its first await: the guard, the path, the invocation
\* (lastWrite.by names the handler that made the call)
SendResponse(kind, response) ==
  /\ ~SendRefused
  /\ lastWrite' = Some([filePath |-> ResponsePath(mcpRequestFile[1]), response |-> response,
                        by |-> kind])
  /\ writeCount' = writeCount + 1
  /\ calls' = calls (+) SetToBag({NewCall(kind, PcAfterInvokeWrite, "pending")})

\* feedbackStore.reset()
StoreReset ==
  /\ text' = << >>
  /\ images' = << >>
  /\ fileReferences' = << >>
  /\ predefinedOptions' = << >>
  /\ selectedOptions' = << >>

\* onMounted: mcpMessage.value = request.message || ''
MessageOf(request) == IF request.message # None THEN request.message[1] ELSE ""

\* onMounted: the request's predefined_options replace the current ones if there are any
OptionsOf(request, current) ==
  IF request.predefined_options # None /\ Len(request.predefined_options[1]) > 0
  THEN request.predefined_options[1] ELSE current

\* feedbackStore.setPredefinedOptions(options) at the end of onMounted
MountTail(options) ==
  /\ mountPc' = "mounted"
  /\ IF Len(options) > 0
     THEN predefinedOptions' = options /\ selectedOptions' = << >>
     ELSE UNCHANGED <<predefinedOptions, selectedOptions>>

storeVars == <<text, predefinedOptions, selectedOptions, images, fileReferences>>
handlerVars == <<isMcpMode, mcpRequestFile, mcpRequest>>
envVars == <<cliArgs, requestOnDisk>>
appVars == <<mcpMessage, mcpPredefinedOptions>>
writeVars == <<lastWrite, writeCount>>

ErrorToast(message) == Some([type |-> "error", message |-> message])
SuccessToast == Some([type |-> "success", message |-> "submitted"])

\* ------------------------------------------------------------------ exchange handler: actions
\* onMounted: get_cli_args resolves; checkMcpMode; loadMcpRequest up to its await
CheckMcpModeReturns ==
  /\ ~terminated /\ mountPc = "checking"
  /\ isMcpMode' = IsMcpModeOf(cliArgs)
  /\ mcpRequestFile' = RequestFileOf(cliArgs)
  /\ IF IsMcpModeOf(cliArgs) /\ RequestFileOf(cliArgs) # None
     THEN mountPc' = "loading" /\ UNCHANGED <<predefinedOptions, selectedOptions>>
     ELSE MountTail(mcpPredefinedOptions)
  /\ UNCHANGED <<envVars, mcpRequest, appVars, toast, isMinimized, text, images,
                 fileReferences, calls, writeVars, terminated, captureVars, intakeVars>>

\* onMounted: get_cli_args rejects; checkMcpMode logs and returns false
CheckMcpModeFails ==
  /\ ~terminated /\ mountPc = "checking"
  /\ MountTail(mcpPredefinedOptions)
  /\ UNCHANGED <<envVars, handlerVars, appVars, toast, isMinimized, text, images,
                 fileReferences, calls, writeVars, terminated, captureVars, intakeVars>>

\* onMounted: read_mcp_request resolves; the request's parameters replace the demo content
LoadMcpRequestReturns ==
  /\ ~terminated /\ mountPc = "loading" /\ requestOnDisk # None
  /\ LET request == requestOnDisk[1]
     IN /\ mcpRequest' = Some(request)
        /\ mcpMessage' = MessageOf(request)
        /\ mcpPredefinedOptions' = OptionsOf(request, mcpPredefinedOptions)
        /\ MountTail(OptionsOf(request, mcpPredefinedOptions))
  /\ UNCHANGED <<envVars, isMcpMode, mcpRequestFile, toast, isMinimized, text, images,
                 fileReferences, calls, writeVars, terminated, captureVars, intakeVars>>

\* onMounted: read_mcp_request rejects; loadMcpRequest logs and returns null
LoadMcpRequestFails ==
  /\ ~terminated /\ mountPc = "loading" /\ requestOnDisk = None
  /\ MountTail(mcpPredefinedOptions)
  /\ UNCHANGED <<envVars, handlerVars, appVars, toast, isMinimized, text, images,
                 fileReferences, calls, writeVars, terminated, captureVars, intakeVars>>

\* the textarea's v-model
SetText ==
  /\ ~terminated
  /\ \E t \in TextInputs : t # text /\ text' = t
  /\ UNCHANGED <<envVars, handlerVars, mountPc, appVars, toast, isMinimized,
                 predefinedOptions, selectedOptions, images, fileReferences,
                 calls, writeVars, terminated, captureVars, intakeVars>>

\* feedbackStore.toggleOption(index)
ToggleOption ==
  /\ ~terminated
  /\ \E i \in 1..Len(predefinedOptions) :
       LET Other(j) == j # i
       IN selectedOptions' =
            IF \E k \in 1..Len(selectedOptions) : selectedOptions[k] = i
            THEN SelectSeq(selectedOptions, Other)
            ELSE Append(selectedOptions, i)
  /\ UNCHANGED <<envVars, handlerVars, mountPc, appVars, toast, isMinimized,
                 text, predefinedOptions, images, fileReferences,
                 calls, writeVars, terminated, captureVars, intakeVars>>

\* feedbackStore.addImage(image)
AddImage ==
  /\ ~terminated
  /\ Len(images) + Len(fileReferences) < MaxAttach
  /\ images' = Append(images, Image1)
  /\ UNCHANGED <<envVars, handlerVars, mountPc, appVars, toast, isMinimized,
                 text, predefinedOptions, selectedOptions, fileReferences,
                 calls, writeVars, terminated, captureVars, intakeVars>>

\* feedbackStore.addFileReference(file)
AddFileReference ==
  /\ ~terminated
  /\ Len(images) + Len(fileReferences) < MaxAttach
  /\ fileReferences' = Append(fileReferences, File1)
  /\ UNCHANGED <<envVars, handlerVars, mountPc, appVars, toast, isMinimized,
                 text, predefinedOptions, selectedOptions, images,
                 calls, writeVars, terminated, captureVars, intakeVars>>

\* mutant of SubmitRefused: the refused submit goes on as a submit outside a session does
SubmitRefusedResets ==
  /\ toast' = ErrorToast("No MCP request active")
  /\ StoreReset
  /\ UNCHANGED <<isMinimized, calls, writeVars>>

\* App.vue submitFeedback, catch: sendResponse has thrown before any await; the error is
\* shown and the handler returns
SubmitRefused ==
  /\ toast' = ErrorToast("No MCP request active")
  /\ UNCHANGED <<isMinimized, storeVars, calls, writeVars>>

\* App.vue submitFeedback (button or Enter), up to its first await or its return
SubmitFeedback ==
  /\ ~terminated
  /\ LET selectedTexts == SelectedTexts
         combinedText == CombinedText(selectedTexts, text)
     IN IF isMcpMode
        THEN IF ~SendRefused
             THEN \* mcpSubmitFeedback: buildResponse, sendResponse up to the write
                  /\ CanStartCall
                  /\ SendResponse("submit",
                       BuildResponse(combinedText, selectedTexts, WireImages, WireFileRefs))
                  /\ UNCHANGED <<toast, isMinimized, storeVars>>
             ELSE SubmitRefused
        ELSE \* not a session: toast, reset, handleAfterSubmit
             /\ toast' = SuccessToast
             /\ StoreReset
             /\ \E autoMinimize \in BOOLEAN : isMinimized' = (isMinimized \/ autoMinimize)
             /\ UNCHANGED <<calls, writeVars>>
  /\ UNCHANGED <<envVars, handlerVars, mountPc, appVars, terminated, captureVars, intakeVars>>

\* App.vue cancelFeedback, up to its first await or its return
CancelFeedback ==
  /\ ~terminated
  /\ IF isMcpMode
     THEN /\ CanStartCall
          /\ IF RequestActive
             THEN SendResponse("cancel", CancelResponse)
             ELSE \* cancelRequest goes straight to closePopup
                  /\ calls' = calls (+) SetToBag({NewCall("cancel", "close", "none")})
                  /\ UNCHANGED writeVars
          /\ UNCHANGED storeVars
     ELSE StoreReset /\ UNCHANGED <<calls, writeVars>>
  /\ UNCHANGED <<envVars, handlerVars, mountPc, appVars, toast, isMinimized,
                 terminated, captureVars, intakeVars>>

\* write_response_file resolves; sendResponse starts its 100 ms timer
WriteResolves ==
  /\ ~terminated
  /\ \E c \in Calls :
       /\ c.write = "pending"
       /\ calls' = Resume(c, [c EXCEPT !.write = "ok",
                                       !.pc = IF c.pc = "write" THEN "flush" ELSE c.pc])
  /\ UNCHANGED <<envVars, handlerVars, mountPc, appVars, toast, isMinimized,
                 storeVars, writeVars, terminated, captureVars, intakeVars>>

\* write_response_file rejects; sendResponse rethrows, App.vue's catch reports it
WriteRejects ==
  /\ ~terminated
  /\ \E c \in Calls :
       /\ c.write = "pending"
       /\ calls' = Resume(c, [c EXCEPT !.write = "err",
                                       !.pc = IF c.pc = "write" THEN PcAfterWriteError ELSE c.pc])
       /\ toast' = IF c.kind = "submit" /\ c.pc = "write" /\ PcAfterWriteError = "failed"
                   THEN ErrorToast("write failed") ELSE toast
  /\ UNCHANGED <<envVars, handlerVars, mountPc, appVars, isMinimized,
                 storeVars, writeVars, terminated, captureVars, intakeVars>>

\* sendResponse's 100 ms timer fires; the handler enters closePopup and its 50 ms timer
FlushDelayElapsed ==
  /\ ~terminated
  /\ \E c \in Calls :
       /\ c.pc = "flush"
       /\ calls' = Resume(c, [c EXCEPT !.pc = "close"])
  /\ UNCHANGED <<envVars, handlerVars, mountPc, appVars, toast, isMinimized,
                 storeVars, writeVars, terminated, captureVars, intakeVars>>

\* closePopup's 50 ms timer fires; exit_app is invoked
CloseDelayElapsed ==
  /\ ~terminated
  /\ \E c \in Calls :
       /\ c.pc = "close"
       /\ calls' = Resume(c, AfterCloseDelay(c))
  /\ UNCHANGED <<envVars, handlerVars, mountPc, appVars, toast, isMinimized,
                 storeVars, writeVars, terminated, captureVars, intakeVars>>

\* the backend serves exit_app: the process ends
ExitApp ==
  /\ ~terminated
  /\ \E c \in Calls : c.pc = "exit" /\ c.exit
  /\ terminated' = TRUE
  /\ UNCHANGED <<envVars, handlerVars, mountPc, appVars, toast, isMinimized,
                 storeVars, calls, writeVars, captureVars, intakeVars>>

\* exit_app rejects; closePopup logs the failure and returns
ExitAppRejects ==
  /\ ~terminated
  /\ \E c \in Calls :
       /\ c.pc = "exit"
       /\ calls' = Resume(c, [c EXCEPT !.pc = "done"])
  /\ UNCHANGED <<envVars, handlerVars, mountPc, appVars, toast, isMinimized,
                 storeVars, writeVars, terminated, captureVars, intakeVars>>

\* ------------------------------------------------------------------ specifications
NormalChrome == [decorations |-> TRUE, alwaysOnTop |-> FALSE, maximized |-> FALSE,
                 topReset |-> FALSE]

\* the overlay is mounted and closed, no capture has been tried
\* no capture has been attempted yet
NoRun == [flow |-> "none", hid |-> FALSE, reshow |-> FALSE, showFailed |-> FALSE,
          code |-> 0, file |-> FALSE, read |-> FALSE, removal |-> "none",
          threw |-> "none", reentered |-> FALSE,
          outcome |-> "none"]

\* ScreenshotOverlay: selectionStart / selectionEnd before any drag
Origin == [x |-> 0, y |-> 0]

NoShot == [data |-> "", mime_type |-> "", width |-> 0, height |-> 0, size |-> 0]

\* no confirmSelection is running
NoRect == [x |-> 0, y |-> 0, width |-> 0, height |-> 0]

\* no further confirmSelection() was invoked while the first one was waiting
NoSecond == [pc |-> "idle", rect |-> NoRect, raster |-> NoShot, cropped |-> NoShot,
             stale |-> FALSE]

NoConfirm == [pc |-> "idle", rect |-> NoRect,
              raster |-> NoShot, cropped |-> NoShot, cancelled |-> FALSE,
              second |-> NoSecond]

\* nothing has been confirmed or cancelled in the selection
NoSelRun == [cancelled |-> FALSE, cancelDone |-> FALSE, emitted |-> FALSE, emits |-> 0,
             afterCancel |-> FALSE, rect |-> NoConfirm.rect, raster |-> NoShot,
             result |-> NoShot]

SelectIdle ==
  /\ isSelecting = FALSE
  /\ selectionStart = Origin
  /\ selectionEnd = Origin
  /\ confirm = NoConfirm
  /\ cancelPc = "idle"
  /\ selRun = NoSelRun

CaptureIdle ==
  /\ overlayVisible = FALSE
  /\ capState = "idle"
  /\ capPc = "idle"
  /\ isCapturing = FALSE
  /\ capError = None
  /\ localError = None
  /\ screenshotData = None
  /\ windowVisible = TRUE
  /\ windowChrome = NormalChrome
  /\ capRun = NoRun
  /\ SelectIdle

CaptureInit == capPlatform = "macos" /\ CaptureIdle

\* an ImagePreviewData that stands for "none"
NoPreview == [id |-> "", data |-> "", mimeType |-> "", width |-> 0, height |-> 0, size |-> 0]

\* the bytes and the decoded picture of "no input"
NoRaw == [size |-> 0, width |-> 0, height |-> 0, decodes |-> FALSE]

\* no createImageFrom* invocation is in flight
NoAcq == [pc |-> "idle", entry |-> "none", caller |-> "none", path |-> << >>,
          raw |-> NoRaw, type |-> "",
          remote |-> "none", local |-> FALSE, processed |-> NoPreview]

\* no createImageFrom* invocation has ended yet
NoResult == [kind |-> "none", error |-> "", preview |-> NoPreview, of |-> NoAcq]

\* no path function is being applied on its own
NoCall == [fn |-> "none", arg |-> << >>, platform |-> "unknown", done |-> FALSE,
           result |-> << >>]

\* FileSelectModal as mounted: closed, nothing selected
ModalIdle ==
  /\ showFileSelectModal = FALSE
  /\ selectedFiles = << >>
  /\ errors = << >>
  /\ dialogPc = "idle"

\* nothing has been dropped on the window
NoDrop == [status |-> "none", via |-> "none", items |-> << >>]

AcqIdle == acq = NoAcq /\ acqResult = NoResult

IntakeIdle == AcqIdle /\ call = NoCall /\ ModalIdle /\ drop = NoDrop

StoreInit ==
  /\ text = << >>
  /\ predefinedOptions = << >>
  /\ selectedOptions = << >>
  /\ images = << >>
  /\ fileReferences = << >>

\* the process has started; onMounted is waiting for get_cli_args
Started ==
  /\ isMcpMode = FALSE
  /\ mcpRequestFile = None
  /\ mcpRequest = None
  /\ mountPc = "checking"
  /\ mcpMessage = DemoMessage
  /\ mcpPredefinedOptions = DemoOptions
  /\ toast = None
  /\ isMinimized = FALSE
  /\ StoreInit
  /\ calls = EmptyBag
  /\ lastWrite = None
  /\ writeCount = 0
  /\ terminated = FALSE
  /\ CaptureInit
  /\ IntakeIdle

Init ==
  /\ cliArgs \in CliArgsSet
  /\ requestOnDisk \in {None, Some(RequestOneOption)}
  /\ Started

Next ==
  \/ CheckMcpModeReturns
  \/ CheckMcpModeFails
  \/ LoadMcpRequestReturns
  \/ LoadMcpRequestFails
  \/ SetText
  \/ ToggleOption
  \/ AddImage
  \/ AddFileReference
  \/ SubmitFeedback
  \/ CancelFeedback
  \/ WriteResolves
  \/ WriteRejects
  \/ FlushDelayElapsed
  \/ CloseDelayElapsed
  \/ ExitApp
  \/ ExitAppRejects

Spec == Init /\ [][Next]_vars

\* ---- a launch on a request file that offers two options, one of them padded; the
\* user types, toggles options, submits and cancels, and attaches nothing
InitOptions ==
  /\ cliArgs = [mcp_request_file |-> Some(PathPlain), mcp_mode |-> FALSE]
  /\ requestOnDisk \in {None, Some(RequestWithOptions)}
  /\ Started

NextOptions ==
  \/ CheckMcpModeReturns
  \/ CheckMcpModeFails
  \/ LoadMcpRequestReturns
  \/ LoadMcpRequestFails
  \/ SetText
  \/ ToggleOption
  \/ SubmitFeedback
  \/ CancelFeedback
  \/ WriteResolves
  \/ WriteRejects
  \/ FlushDelayElapsed
  \/ CloseDelayElapsed
  \/ ExitApp
  \/ ExitAppRejects

SpecOptions == InitOptions /\ [][NextOptions]_vars

\* ---- the submit / cancel handlers once onMounted has finished, over richer contents
\* the request-file paths a session may be launched with
SessionPaths == {PathPlain, PathMarkerDir, PathNoMarker}

\* the selections n rendered options allow: duplicate-free index sequences
Selections(n) ==
  { sel \in UNION { [1..k -> 1..n] : k \in 0..n } :
      \A a, b \in 1..Len(sel) : a # b => sel[a] # sel[b] }

\* the attachments the user may have added
AttachmentChoices ==
  { a \in [images : {<< >>, <<Image1>>, <<Image1, Image1>>},
           fileReferences : {<< >>, <<File1>>, <<File1, File1>>}] :
      Len(a.images) + Len(a.fileReferences) <= MaxAttach }

\* onMounted has finished with a loaded request and the user has filled in the popup
InitLoaded ==
  /\ \E path \in SessionPaths, request \in {RequestWithOptions, RequestNoOptions} :
       /\ \/ path = PathPlain
          \/ request = RequestWithOptions /\ text = Ok /\ selectedOptions = <<1>>
                /\ images = << >> /\ fileReferences = << >>
       /\ cliArgs = [mcp_request_file |-> Some(path), mcp_mode |-> TRUE]
       /\ requestOnDisk = Some(request)
       /\ mcpRequest = Some(request)
       /\ mcpMessage = MessageOf(request)
       /\ mcpPredefinedOptions = OptionsOf(request, DemoOptions)
       /\ predefinedOptions = OptionsOf(request, DemoOptions)
  /\ text \in RichTexts
  /\ selectedOptions \in Selections(Len(predefinedOptions))
  /\ \E a \in AttachmentChoices : images = a.images /\ fileReferences = a.fileReferences

\* onMounted has finished without a request: no arguments, the flag alone, or a failed load
InitNotLoaded ==
  /\ cliArgs \in {NoArgs, [mcp_request_file |-> None, mcp_mode |-> TRUE],
                  [mcp_request_file |-> Some(PathPlain), mcp_mode |-> FALSE]}
  /\ requestOnDisk = None
  /\ mcpRequest = None
  /\ mcpMessage = DemoMessage
  /\ mcpPredefinedOptions = DemoOptions
  /\ predefinedOptions = DemoOptions
  /\ text \in {<< >>, Ok}
  /\ selectedOptions \in {<< >>, <<1>>}
  /\ \E a \in AttachmentChoices : images = a.images /\ fileReferences = a.fileReferences

InitMounted ==
  /\ InitLoaded \/ InitNotLoaded
  /\ isMcpMode = IsMcpModeOf(cliArgs)
  /\ mcpRequestFile = RequestFileOf(cliArgs)
  /\ mountPc = "mounted"
  /\ toast = None
  /\ isMinimized = FALSE
  /\ calls = EmptyBag
  /\ lastWrite = None
  /\ writeCount = 0
  /\ terminated = FALSE
  /\ CaptureInit
  /\ IntakeIdle

NextMounted ==
  \/ SubmitFeedback
  \/ CancelFeedback
  \/ WriteResolves
  \/ WriteRejects
  \/ FlushDelayElapsed
  \/ CloseDelayElapsed
  \/ ExitApp
  \/ ExitAppRejects

SpecMounted == InitMounted /\ [][NextMounted]_vars

\* ------------------------------------------------------------------ screen capture
\* capPc, the position of startCapture (one capture is followed at a time):
\*   "idle"                          no startCapture is running
\*   captureInteractive:   "n_prepare" imports, appDataDir   "n_hide" hide()
\*     "n_wait" 500 ms     "n_exec" screencapture -i         "n_show" show()
\*     "n_focus" setFocus() "n_read" readFile                "n_remove" remove
\*     "n_cshow", "n_cfocus"  show() and setFocus() of its catch block
\*   captureFullScreenSilent: "s_hide" hide()  "s_wait" 300 ms  "s_grab" captureWithPlugin
\*   enterFullscreenMode:  "f_deco" "f_top" "f_max" "f_show" "f_focus"
\*   "rejected"            the capture function has rejected; startCapture's catch runs next
\*   showWindow in startCapture's catch: "c_show", "c_focus"
\* capRun, the latest attempt: flow, hid (its hide() took effect), reshow (show() was
\* invoked since), showFailed (the latest show() rejected), code (the tool's exit
\* code), file (the tool's output file exists), read (readFile returned it), removal
\* ("none" | "done" | "failed": how remove() settled), threw
\* (the position whose call rejected), outcome ("none" | "running" | "result" | "null" | "selecting" | "error" |
\* "unhandled"), reentered (startCapture was invoked again before this attempt ended).

Platforms == {"macos", "linux"}

\* mutant of IsNative: no platform takes the native flow
IsNativeNever == FALSE

\* useNativeScreenshot(): getPlatform() === 'macos'
IsNative == capPlatform = "macos"

\* what the capture tool or the screenshots plugin may leave in the file
GoodShot == [data |-> "iVBORw0K", mime_type |-> "image/png", width |-> 8, height |-> 6, size |-> 6]
EmptyShot == [data |-> "", mime_type |-> "image/png", width |-> 0, height |-> 0, size |-> 0]
Shots == {GoodShot, EmptyShot}

NewRun(flow) == [flow |-> flow, hid |-> FALSE, reshow |-> FALSE, showFailed |-> FALSE,
                 code |-> 0, file |-> FALSE, read |-> FALSE, removal |-> "none",
                 threw |-> "none", reentered |-> FALSE,
                 outcome |-> "running"]

\* everything of the exchange session a capture leaves alone
captureFrame == <<envVars, handlerVars, mountPc, appVars, isMinimized, text,
                  predefinedOptions, selectedOptions, fileReferences, calls, writeVars,
                  terminated, capPlatform, intakeVars>>

\* ScreenshotOverlay resetState(), with useScreenshot cleanup()
ResetState ==
  /\ capState' = "idle"
  /\ screenshotData' = None
  /\ capError' = None
  /\ localError' = None
  /\ isSelecting' = FALSE
  /\ selectionStart' = Origin
  /\ selectionEnd' = Origin

\* App.vue toolbar: showScreenshotOverlay = true
OpenOverlay ==
  /\ ~overlayVisible /\ windowVisible
  /\ overlayVisible' = TRUE
  /\ UNCHANGED <<captureFrame, selectVars, images, toast, capState, capPc, isCapturing, capError,
                 localError, screenshotData, windowVisible, windowChrome, capRun>>

\* ScreenshotOverlay cancel() on the idle card (Escape, the cancel button, a click outside)
CancelOverlay ==
  /\ overlayVisible /\ windowVisible /\ capState = "idle"
  /\ ResetState
  /\ overlayVisible' = FALSE
  /\ UNCHANGED <<captureFrame, confirm, cancelPc, selRun, images, toast, capPc, isCapturing, windowVisible,
                 windowChrome, capRun>>

\* startCapture (the start button or Enter), up to the first await of the capture call.
\* native: emit('close') hides the overlay, whose watcher resets the state;
\* captureInteractive sets isCapturing and waits for its imports.
\* software: captureFullScreenSilent sets isCapturing and invokes hide().
StartCapture ==
  /\ overlayVisible /\ windowVisible /\ capState = "idle" /\ capPc = "idle"
  /\ confirm.pc = "idle" /\ cancelPc = "idle"
  /\ Len(images) + Len(fileReferences) < MaxAttach
  /\ isCapturing' = TRUE
  /\ capError' = None
  /\ localError' = None
  /\ IF IsNative
     THEN /\ overlayVisible' = FALSE
          /\ capState' = "idle"
          /\ screenshotData' = None
          /\ capPc' = "n_prepare"
          /\ capRun' = NewRun("native")
     ELSE /\ capState' = "capturing"
          /\ capPc' = "s_hide"
          /\ capRun' = NewRun("software")
          /\ UNCHANGED <<overlayVisible, screenshotData>>
  /\ selRun' = NoSelRun
  /\ confirm' = [confirm EXCEPT !.second.stale = (confirm.second.pc # "idle")]
  /\ UNCHANGED <<captureFrame, isSelecting, selectionStart, selectionEnd, cancelPc,
                 images, toast, windowVisible, windowChrome>>

\* the exit codes of screencapture -i: 0, or 1 when the user pressed Escape
ExitCodes == {0, 1}

\* mutant of UserCancelled: the exit code is not looked at
UserCancelledNever(code) == FALSE

\* captureInteractive: if (output.code !== 0) return null
UserCancelled(code) == code # 0

\* captureInteractive returns `result` (nullable); startCapture emits it and resets.
\* App.vue handleScreenshotCapture adds the image if it has data, closes the overlay
\* and raises the window for 500 ms.
InteractiveReturns(result, run) ==
  /\ isCapturing' = FALSE
  /\ ResetState
  /\ capPc' = "idle"
  /\ capRun' = [run EXCEPT !.outcome = IF result = None THEN "null" ELSE "result"]
  /\ IF result # None
     THEN /\ overlayVisible' = FALSE
          /\ windowChrome' = [windowChrome EXCEPT !.alwaysOnTop = TRUE, !.topReset = TRUE]
          /\ IF result[1].data # ""
             THEN /\ images' = Append(images,
                       [id |-> "screenshot", data |-> result[1].data,
                        mimeType |-> result[1].mime_type, width |-> result[1].width,
                        height |-> result[1].height, size |-> result[1].size])
                  /\ toast' = Some([type |-> "success", message |-> "screenshot"])
             ELSE UNCHANGED <<images, toast>>
     ELSE UNCHANGED <<overlayVisible, windowChrome, images, toast>>

\* captureInteractive: the awaited call resolves
CaptureInteractiveProceeds ==
  /\ capPc \in {"n_prepare", "n_hide", "n_wait", "n_exec", "n_show", "n_focus",
                "n_read", "n_remove"}
  /\ \/ /\ capPc = "n_prepare"
        /\ capPc' = "n_hide"
        /\ UNCHANGED <<capRun, windowVisible>>
     \/ /\ capPc = "n_hide"
        /\ windowVisible' = FALSE
        /\ capRun' = [capRun EXCEPT !.hid = TRUE]
        /\ capPc' = "n_wait"
     \/ /\ capPc = "n_wait"
        /\ capPc' = "n_exec"
        /\ UNCHANGED <<capRun, windowVisible>>
     \/ /\ capPc = "n_exec"
        /\ \E code \in ExitCodes, file \in BOOLEAN :
              capRun' = [capRun EXCEPT !.code = code, !.file = file, !.reshow = TRUE]
        /\ capPc' = "n_show"
        /\ UNCHANGED windowVisible
     \/ /\ capPc = "n_show"
        /\ windowVisible' = TRUE
        /\ capRun' = [capRun EXCEPT !.showFailed = FALSE]
        /\ capPc' = "n_focus"
     \/ /\ capPc = "n_focus" /\ ~UserCancelled(capRun.code)
        /\ capPc' = "n_read"
        /\ UNCHANGED <<capRun, windowVisible>>
     \/ /\ capPc = "n_read" /\ capRun.file
        /\ capRun' = [capRun EXCEPT !.read = TRUE]
        /\ capPc' = "n_remove"
        /\ UNCHANGED windowVisible
  /\ UNCHANGED <<captureFrame, selectVars, images, toast, overlayVisible, capState, isCapturing,
                 capError, localError, screenshotData, windowChrome>>

\* captureInteractive returns: null after a non-zero exit code or an unreadable file,
\* the screenshot once remove() has settled (it deletes the file, or rejects and is
\* ignored)
CaptureInteractiveReturns ==
  /\ \/ capPc = "n_focus" /\ UserCancelled(capRun.code) /\ InteractiveReturns(None, capRun)
     \/ capPc = "n_read" /\ InteractiveReturns(None, capRun)
     \/ capPc = "n_remove" /\ \E shot \in Shots, removed \in BOOLEAN :
           InteractiveReturns(Some(shot),
             [capRun EXCEPT !.file = ~removed,
                            !.removal = IF removed THEN "done" ELSE "failed"])
  /\ UNCHANGED <<captureFrame, confirm, cancelPc, selRun, windowVisible>>

\* captureInteractive: an awaited call rejects; the catch records the error and
\* invokes show()
CaptureInteractiveThrows ==
  /\ capPc \in {"n_prepare", "n_hide", "n_exec", "n_show", "n_focus"}
  /\ capError' = Some("capture failed")
  /\ capRun' = [capRun EXCEPT !.reshow = TRUE, !.threw = capPc,
                              !.showFailed = IF capPc = "n_show" THEN TRUE ELSE @]
  /\ capPc' = "n_cshow"
  /\ UNCHANGED <<captureFrame, selectVars, images, toast, overlayVisible, capState, isCapturing,
                 localError, screenshotData, windowVisible, windowChrome>>

\* captureInteractive's catch: show() and setFocus() resolve or reject (ignored), then
\* the error is rethrown and `finally` clears isCapturing
CaptureInteractiveCatch ==
  /\ \/ /\ capPc = "n_cshow"
        /\ windowVisible' = TRUE
        /\ capRun' = [capRun EXCEPT !.showFailed = FALSE]
        /\ capPc' = "n_cfocus"
        /\ UNCHANGED isCapturing
     \/ /\ capPc = "n_cshow"
        /\ capRun' = [capRun EXCEPT !.showFailed = TRUE]
        /\ capPc' = "rejected"
        /\ isCapturing' = FALSE
        /\ UNCHANGED windowVisible
     \/ /\ capPc = "n_cfocus"
        /\ capPc' = "rejected"
        /\ isCapturing' = FALSE
        /\ UNCHANGED <<capRun, windowVisible>>
  /\ UNCHANGED <<captureFrame, selectVars, images, toast, overlayVisible, capState, capError,
                 localError, screenshotData, windowChrome>>

\* captureFullScreenSilent: the awaited call resolves; once the raster is stored the
\* function returns and startCapture invokes enterFullscreenMode
CaptureFullScreenSilentProceeds ==
  /\ \/ /\ capPc = "s_hide"
        /\ windowVisible' = FALSE
        /\ capRun' = [capRun EXCEPT !.hid = TRUE]
        /\ capPc' = "s_wait"
        /\ UNCHANGED <<screenshotData, isCapturing>>
     \/ /\ capPc = "s_wait"
        /\ capPc' = "s_grab"
        /\ UNCHANGED <<capRun, windowVisible, screenshotData, isCapturing>>
     \/ /\ capPc = "s_grab"
        /\ \E shot \in Shots : screenshotData' = Some(shot)
        /\ isCapturing' = FALSE
        /\ capPc' = "f_deco"
        /\ UNCHANGED <<capRun, windowVisible>>
  /\ UNCHANGED <<captureFrame, selectVars, images, toast, overlayVisible, capState, capError,
                 localError, windowChrome>>

\* captureFullScreenSilent: hide() or the grab rejects; the catch records the error and
\* rethrows, `finally` clears isCapturing
CaptureFullScreenSilentThrows ==
  /\ capPc \in {"s_hide", "s_grab"}
  /\ capError' = Some("capture failed")
  /\ isCapturing' = FALSE
  /\ capPc' = "rejected"
  /\ UNCHANGED <<captureFrame, selectVars, images, toast, overlayVisible, capState, localError,
                 screenshotData, windowVisible, windowChrome, capRun>>

\* mutant of StartCaptureCatch: the catch forgets showWindow()
StartCaptureCatchNoShow(run) ==
  /\ localError' = Some("capture failed")
  /\ capState' = "idle"
  /\ capPc' = "idle"
  /\ capRun' = [run EXCEPT !.outcome = "error"]

\* startCapture's catch: localError, state = 'idle', showWindow() up to its show()
StartCaptureCatch(run) ==
  /\ localError' = Some("capture failed")
  /\ capState' = "idle"
  /\ capPc' = "c_show"
  /\ capRun' = [run EXCEPT !.reshow = TRUE]

\* the rejection of the capture function reaches startCapture's catch
StartCaptureCatches ==
  /\ capPc = "rejected"
  /\ StartCaptureCatch(capRun)
  /\ UNCHANGED <<captureFrame, selectVars, images, toast, overlayVisible, isCapturing, capError,
                 screenshotData, windowVisible, windowChrome>>

\* enterFullscreenMode: setDecorations(false), setAlwaysOnTop(true), maximize(), show(),
\* setFocus() resolve in turn; then startCapture enters 'selecting' with an empty
\* selection
EnterFullscreenModeProceeds ==
  /\ \/ /\ capPc = "f_deco"
        /\ windowChrome' = [windowChrome EXCEPT !.decorations = FALSE]
        /\ capPc' = "f_top"
        /\ UNCHANGED <<capRun, windowVisible, capState, selectionStart, selectionEnd>>
     \/ /\ capPc = "f_top"
        /\ windowChrome' = [windowChrome EXCEPT !.alwaysOnTop = TRUE]
        /\ capPc' = "f_max"
        /\ UNCHANGED <<capRun, windowVisible, capState, selectionStart, selectionEnd>>
     \/ /\ capPc = "f_max"
        /\ windowChrome' = [windowChrome EXCEPT !.maximized = TRUE]
        /\ capRun' = [capRun EXCEPT !.reshow = TRUE]
        /\ capPc' = "f_show"
        /\ UNCHANGED <<windowVisible, capState, selectionStart, selectionEnd>>
     \/ /\ capPc = "f_show"
        /\ windowVisible' = TRUE
        /\ capRun' = [capRun EXCEPT !.showFailed = FALSE]
        /\ capPc' = "f_focus"
        /\ UNCHANGED <<windowChrome, capState, selectionStart, selectionEnd>>
     \/ /\ capPc = "f_focus"
        /\ capState' = "selecting"
        /\ capRun' = [capRun EXCEPT !.outcome = "selecting"]
        /\ selectionStart' = Origin
        /\ selectionEnd' = Origin
        /\ capPc' = "idle"
        /\ UNCHANGED <<windowChrome, windowVisible>>
  /\ UNCHANGED <<captureFrame, isSelecting, confirm, cancelPc, selRun, images, toast, overlayVisible, isCapturing, capError,
                 localError, screenshotData>>

\* enterFullscreenMode: a window call rejects; startCapture's catch runs
EnterFullscreenModeThrows ==
  /\ capPc \in {"f_deco", "f_top", "f_max", "f_show", "f_focus"}
  /\ StartCaptureCatch([capRun EXCEPT !.showFailed = IF capPc = "f_show" THEN TRUE ELSE @])
  /\ UNCHANGED <<captureFrame, selectVars, images, toast, overlayVisible, isCapturing, capError,
                 screenshotData, windowVisible, windowChrome>>

\* showWindow() in startCapture's catch: show() then setFocus() resolve
ShowWindowProceeds ==
  /\ \/ /\ capPc = "c_show"
        /\ windowVisible' = TRUE
        /\ capRun' = [capRun EXCEPT !.showFailed = FALSE]
        /\ capPc' = "c_focus"
     \/ /\ capPc = "c_focus"
        /\ capRun' = [capRun EXCEPT !.outcome = "error"]
        /\ capPc' = "idle"
        /\ UNCHANGED windowVisible
  /\ UNCHANGED <<captureFrame, selectVars, images, toast, overlayVisible, capState, isCapturing,
                 capError, localError, screenshotData, windowChrome>>

\* showWindow() in startCapture's catch rejects: startCapture ends with an unhandled
\* rejection
ShowWindowThrows ==
  /\ capPc \in {"c_show", "c_focus"}
  /\ capRun' = [capRun EXCEPT !.outcome = "unhandled",
                              !.showFailed = IF capPc = "c_show" THEN TRUE ELSE @]
  /\ capPc' = "idle"
  /\ UNCHANGED <<captureFrame, selectVars, images, toast, overlayVisible, capState, isCapturing,
                 capError, localError, screenshotData, windowVisible, windowChrome>>

\* ---- the selection of the software flow (ScreenshotOverlay in 'selecting')
\* confirm.pc and cancelPc: "idle" | "crop" (cropImage) | exitFullscreenMode:
\*   "x_top" setAlwaysOnTop(false)  "x_unmax" unmaximize()  "x_deco" setDecorations(true)
\* One confirmSelection and one cancel are followed at a time, and a capture is started
\* only once the handlers of the previous one have finished.

\* window.innerWidth / window.innerHeight of the maximized window
ScreenSize == [width |-> 16, height |-> 12]

\* where the mouse is pressed and where it is dragged to
Coords == {0, 5, 10, 11}
DownPoints == {Origin, [x |-> 11, y |-> 11]}
MovePoints == {[x |-> a, y |-> b] : a \in Coords, b \in Coords}

Min(a, b) == IF a <= b THEN a ELSE b

\* ScreenshotOverlay `selection`
SelectionOf(start, end) ==
  LET x1 == Min(start.x, end.x)
      y1 == Min(start.y, end.y)
      x2 == Max(start.x, end.x)
      y2 == Max(start.y, end.y)
  IN [x |-> x1, y |-> y1, width |-> x2 - x1, height |-> y2 - y1]

Selection == SelectionOf(selectionStart, selectionEnd)

\* mutant of HasSelection: one long side is enough
HasSelectionEitherSide(sel) == sel.width > 10 \/ sel.height > 10

\* ScreenshotOverlay `hasSelection`
HasSelection(sel) == sel.width > 10 /\ sel.height > 10

\* useScreenshot cropImage: the canvas it resolves with (the encoded size stands for
\* Math.round(base64.length * 0.75); an empty canvas encodes to no data)
CropImage(screenshot, sel) ==
  LET w == Round(sel.width * screenshot.width, ScreenSize.width)
      h == Round(sel.height * screenshot.height, ScreenSize.height)
  IN [data |-> IF w > 0 /\ h > 0 THEN "crop" ELSE "", mime_type |-> "image/png",
      width |-> w, height |-> h, size |-> w * h]

selectFrame == <<captureFrame, capPc, isCapturing, capError, windowVisible>>

\* handleMouseDown on the selection overlay
HandleMouseDown ==
  /\ capState = "selecting"
  /\ \E p \in DownPoints :
       /\ isSelecting' = TRUE
       /\ selectionStart' = p
       /\ selectionEnd' = p
  /\ UNCHANGED <<selectFrame, images, toast, overlayVisible, capState, localError,
                 screenshotData, windowChrome, capRun, confirm, cancelPc, selRun>>

\* mutant of MouseMoveTracks: every move is followed
MouseMoveTracksAlways == TRUE

\* handleMouseMove: if (!isSelecting.value) return
MouseMoveTracks == isSelecting

\* handleMouseMove on the selection overlay
HandleMouseMove ==
  /\ capState = "selecting"
  /\ \E p \in MovePoints :
       selectionEnd' = IF MouseMoveTracks THEN p ELSE selectionEnd
  /\ UNCHANGED <<selectFrame, images, toast, overlayVisible, capState, localError,
                 screenshotData, windowChrome, capRun, isSelecting, selectionStart,
                 confirm, cancelPc, selRun>>

\* handleMouseUp (mouseup, mouseleave)
HandleMouseUp ==
  /\ capState = "selecting" /\ isSelecting
  /\ isSelecting' = FALSE
  /\ UNCHANGED <<selectFrame, images, toast, overlayVisible, capState, localError,
                 screenshotData, windowChrome, capRun, selectionStart, selectionEnd,
                 confirm, cancelPc, selRun>>

\* confirmSelection (the confirm button or Enter) up to its await of cropImage; it
\* returns at once without a selection or a raster
ConfirmSelection ==
  /\ capState = "selecting" /\ confirm.pc = "idle"
  /\ IF HasSelection(Selection) /\ screenshotData # None
     THEN confirm' = [pc |-> "crop", rect |-> Selection, raster |-> screenshotData[1],
                      cropped |-> NoShot, cancelled |-> cancelPc # "idle",
                      second |-> confirm.second]
     ELSE UNCHANGED confirm
  /\ UNCHANGED <<selectFrame, images, toast, overlayVisible, capState, localError,
                 screenshotData, windowChrome, capRun, isSelecting, selectionStart,
                 selectionEnd, cancelPc, selRun>>

\* cropImage resolves (the raster decodes); confirmSelection invokes exitFullscreenMode
CropImageResolves ==
  /\ confirm.pc = "crop" /\ confirm.raster.data # ""
  /\ confirm' = [confirm EXCEPT !.pc = "x_top",
                                !.cropped = CropImage(confirm.raster, confirm.rect)]
  /\ UNCHANGED <<selectFrame, images, toast, overlayVisible, capState, localError,
                 screenshotData, windowChrome, capRun, isSelecting, selectionStart,
                 selectionEnd, cancelPc, selRun>>

\* confirmSelection's catch after cropImage or a call of exitFullscreenMode rejected
ConfirmSelectionCatches ==
  /\ confirm.pc \in {"crop", "x_top", "x_unmax", "x_deco"}
  /\ localError' = Some("confirm failed")
  /\ confirm' = [NoConfirm EXCEPT !.second = confirm.second]
  /\ UNCHANGED <<selectFrame, images, toast, overlayVisible, capState, screenshotData,
                 windowChrome, capRun, isSelecting, selectionStart, selectionEnd,
                 cancelPc, selRun>>

\* App.vue handleScreenshotCapture for a cropped result
HandleScreenshotCapture(result) ==
  /\ overlayVisible' = FALSE
  /\ IF result.data # ""
     THEN /\ images' = Append(images,
               [id |-> "screenshot", data |-> result.data, mimeType |-> result.mime_type,
                width |-> result.width, height |-> result.height, size |-> result.size])
          /\ toast' = Some([type |-> "success", message |-> "screenshot"])
     ELSE UNCHANGED <<images, toast>>

\* confirmSelection after cropImage: the calls of exitFullscreenMode resolve in turn,
\* then emit('capture', cropped) and resetState()
ConfirmSelectionProceeds ==
  /\ \/ /\ confirm.pc = "x_top"
        /\ windowChrome' = [windowChrome EXCEPT !.alwaysOnTop = FALSE]
        /\ confirm' = [confirm EXCEPT !.pc = "x_unmax"]
        /\ UNCHANGED <<images, toast, overlayVisible, capState, localError,
                       screenshotData, capError, capRun, isSelecting, selectionStart,
                       selectionEnd, selRun>>
     \/ /\ confirm.pc = "x_unmax"
        /\ windowChrome' = [windowChrome EXCEPT !.maximized = FALSE]
        /\ confirm' = [confirm EXCEPT !.pc = "x_deco"]
        /\ UNCHANGED <<images, toast, overlayVisible, capState, localError,
                       screenshotData, capError, capRun, isSelecting, selectionStart,
                       selectionEnd, selRun>>
     \/ /\ confirm.pc = "x_deco"
        /\ windowChrome' = [windowChrome EXCEPT !.decorations = TRUE,
                                                !.alwaysOnTop = TRUE, !.topReset = TRUE]
        /\ HandleScreenshotCapture(confirm.cropped)
        /\ ResetState
        /\ capRun' = [capRun EXCEPT !.outcome = "result"]
        /\ selRun' = [selRun EXCEPT !.emitted = TRUE, !.emits = @ + 1,
                                    !.afterCancel = confirm.cancelled,
                                    !.rect = confirm.rect, !.raster = confirm.raster,
                                    !.result = confirm.cropped]
        /\ confirm' = [NoConfirm EXCEPT !.second = confirm.second]
  /\ UNCHANGED <<captureFrame, capPc, isCapturing, windowVisible, cancelPc>>

\* cancel() in 'selecting' (Escape or the cancel button) up to the first call of
\* exitFullscreenMode
Cancel ==
  /\ capState = "selecting" /\ cancelPc = "idle"
  /\ cancelPc' = "x_top"
  /\ confirm' = IF confirm.pc # "idle" THEN [confirm EXCEPT !.cancelled = TRUE] ELSE confirm
  /\ selRun' = [selRun EXCEPT !.cancelled = TRUE]
  /\ UNCHANGED <<selectFrame, images, toast, overlayVisible, capState, localError,
                 screenshotData, windowChrome, capRun, isSelecting, selectionStart,
                 selectionEnd>>

\* cancel(): the calls of exitFullscreenMode resolve in turn, then resetState() and
\* emit('close')
CancelProceeds ==
  /\ \/ /\ cancelPc = "x_top"
        /\ windowChrome' = [windowChrome EXCEPT !.alwaysOnTop = FALSE]
        /\ cancelPc' = "x_unmax"
        /\ UNCHANGED <<overlayVisible, capState, localError, screenshotData, capError,
                       isSelecting, selectionStart, selectionEnd, selRun>>
     \/ /\ cancelPc = "x_unmax"
        /\ windowChrome' = [windowChrome EXCEPT !.maximized = FALSE]
        /\ cancelPc' = "x_deco"
        /\ UNCHANGED <<overlayVisible, capState, localError, screenshotData, capError,
                       isSelecting, selectionStart, selectionEnd, selRun>>
     \/ /\ cancelPc = "x_deco"
        /\ windowChrome' = [windowChrome EXCEPT !.decorations = TRUE]
        /\ ResetState
        /\ overlayVisible' = FALSE
        /\ selRun' = [selRun EXCEPT !.cancelDone = TRUE]
        /\ cancelPc' = "idle"
  /\ UNCHANGED <<captureFrame, capPc, isCapturing, windowVisible, images, toast, capRun,
                 confirm>>

\* cancel(): a call of exitFullscreenMode rejects and nothing catches it
CancelThrows ==
  /\ cancelPc \in {"x_top", "x_unmax", "x_deco"}
  /\ cancelPc' = "idle"
  /\ UNCHANGED <<selectFrame, images, toast, overlayVisible, capState, localError,
                 screenshotData, windowChrome, capRun, isSelecting, selectionStart,
                 selectionEnd, confirm, selRun>>

\* App.vue handleScreenshotCapture: the 500 ms timer clears always-on-top
TopResetTimer ==
  /\ windowChrome.topReset
  /\ windowChrome' = [windowChrome EXCEPT !.alwaysOnTop = FALSE, !.topReset = FALSE]
  /\ UNCHANGED <<captureFrame, selectVars, images, toast, overlayVisible, capState, capPc,
                 isCapturing, capError, localError, screenshotData, windowVisible, capRun>>

\* the popup is mounted outside a session and nothing has been entered
MountedIdle ==
  /\ cliArgs = NoArgs
  /\ requestOnDisk = None
  /\ isMcpMode = FALSE
  /\ mcpRequestFile = None
  /\ mcpRequest = None
  /\ mountPc = "mounted"
  /\ mcpMessage = DemoMessage
  /\ mcpPredefinedOptions = DemoOptions
  /\ predefinedOptions = DemoOptions
  /\ text = << >>
  /\ selectedOptions = << >>
  /\ images = << >>
  /\ toast = None
  /\ isMinimized = FALSE
  /\ calls = EmptyBag
  /\ lastWrite = None
  /\ writeCount = 0
  /\ terminated = FALSE
  /\ capPlatform \in Platforms
  /\ CaptureIdle

InitCapture == MountedIdle /\ fileReferences = << >> /\ IntakeIdle

NextCapture ==
  \/ OpenOverlay
  \/ CancelOverlay
  \/ StartCapture
  \/ CaptureInteractiveProceeds
  \/ CaptureInteractiveReturns
  \/ CaptureInteractiveThrows
  \/ CaptureInteractiveCatch
  \/ CaptureFullScreenSilentProceeds
  \/ CaptureFullScreenSilentThrows
  \/ StartCaptureCatches
  \/ EnterFullscreenModeProceeds
  \/ EnterFullscreenModeThrows
  \/ ShowWindowProceeds
  \/ ShowWindowThrows
  \/ TopResetTimer
  \/ HandleMouseDown
  \/ HandleMouseMove
  \/ HandleMouseUp
  \/ ConfirmSelection
  \/ CropImageResolves
  \/ ConfirmSelectionCatches
  \/ ConfirmSelectionProceeds
  \/ Cancel
  \/ CancelProceeds
  \/ CancelThrows

SpecCapture == InitCapture /\ [][NextCapture]_vars

\* ---- startCapture invoked while an earlier startCapture is still waiting
\* the capture function of the latest startCapture has not returned or rejected yet
CaptureAwaited ==
  capPc \in {"n_prepare", "n_hide", "n_wait", "n_exec", "n_show", "n_focus", "n_read",
             "n_remove", "n_cshow", "n_cfocus", "s_hide", "s_wait", "s_grab",
             "f_deco", "f_top", "f_max", "f_show", "f_focus"}

\* handleKeyDown: Enter on the idle card invokes startCapture()
EnterStartsCapture == overlayVisible /\ capState = "idle"

\* Enter while the capture function of an earlier startCapture is awaited: the
\* synchronous part of the new startCapture runs as in StartCapture (the attempt already
\* under way stays the one that is followed, and the new invocation is left at its
\* first await)
StartCaptureInFlight ==
  /\ windowVisible /\ EnterStartsCapture
  /\ CaptureAwaited
  /\ isCapturing' = TRUE
  /\ capError' = None
  /\ localError' = None
  /\ IF IsNative
     THEN /\ overlayVisible' = FALSE
          /\ capState' = "idle"
          /\ screenshotData' = None
     ELSE /\ capState' = "capturing"
          /\ UNCHANGED <<overlayVisible, screenshotData>>
  /\ capRun' = [capRun EXCEPT !.reentered = TRUE]
  /\ UNCHANGED <<captureFrame, selectVars, images, toast, capPc, windowVisible, windowChrome>>

NextCaptureReentry ==
  \/ NextCapture
  \/ StartCaptureInFlight

SpecCaptureReentry == InitCapture /\ [][NextCaptureReentry]_vars

\* ---- confirmSelection invoked while an earlier confirmSelection is still waiting
\* confirmSelection (the confirm button or Enter) while the first invocation waits for
\* cropImage or exitFullscreenMode: state is still 'selecting', so it goes up to its own
\* await of cropImage
ConfirmSelectionAgain ==
  /\ capState = "selecting" /\ confirm.pc # "idle" /\ confirm.second.pc = "idle"
  /\ HasSelection(Selection) /\ screenshotData # None
  /\ confirm' = [confirm EXCEPT !.second =
                   [pc |-> "crop", rect |-> Selection, raster |-> screenshotData[1],
                    cropped |-> NoShot, stale |-> FALSE]]
  /\ UNCHANGED <<selectFrame, images, toast, overlayVisible, capState, localError,
                 screenshotData, windowChrome, capRun, isSelecting, selectionStart,
                 selectionEnd, cancelPc, selRun>>

\* cropImage of the later invocation resolves; it invokes exitFullscreenMode
SecondCropResolves ==
  /\ confirm.second.pc = "crop" /\ confirm.second.raster.data # ""
  /\ confirm' = [confirm EXCEPT !.second.pc = "x_top",
                                !.second.cropped =
                                   CropImage(confirm.second.raster, confirm.second.rect)]
  /\ UNCHANGED <<selectFrame, images, toast, overlayVisible, capState, localError,
                 screenshotData, windowChrome, capRun, isSelecting, selectionStart,
                 selectionEnd, cancelPc, selRun>>

\* the catch of the later invocation
SecondConfirmCatches ==
  /\ confirm.second.pc \in {"crop", "x_top", "x_unmax", "x_deco"}
  /\ localError' = Some("confirm failed")
  /\ confirm' = [confirm EXCEPT !.second = NoSecond]
  /\ UNCHANGED <<selectFrame, images, toast, overlayVisible, capState, screenshotData,
                 windowChrome, capRun, isSelecting, selectionStart, selectionEnd,
                 cancelPc, selRun>>

\* the later invocation after cropImage: the calls of exitFullscreenMode resolve in
\* turn, then emit('capture', cropped) and resetState(), whatever the state has become
SecondConfirmProceeds ==
  /\ \/ /\ confirm.second.pc = "x_top"
        /\ windowChrome' = [windowChrome EXCEPT !.alwaysOnTop = FALSE]
        /\ confirm' = [confirm EXCEPT !.second.pc = "x_unmax"]
        /\ UNCHANGED <<images, toast, overlayVisible, capState, localError,
                       screenshotData, capError, isSelecting, selectionStart,
                       selectionEnd, selRun>>
     \/ /\ confirm.second.pc = "x_unmax"
        /\ windowChrome' = [windowChrome EXCEPT !.maximized = FALSE]
        /\ confirm' = [confirm EXCEPT !.second.pc = "x_deco"]
        /\ UNCHANGED <<images, toast, overlayVisible, capState, localError,
                       screenshotData, capError, isSelecting, selectionStart,
                       selectionEnd, selRun>>
     \/ /\ confirm.second.pc = "x_deco"
        /\ windowChrome' = [windowChrome EXCEPT !.decorations = TRUE,
                                                !.alwaysOnTop = TRUE, !.topReset = TRUE]
        /\ HandleScreenshotCapture(confirm.second.cropped)
        /\ ResetState
        /\ selRun' = IF confirm.second.stale THEN selRun
                     ELSE [selRun EXCEPT !.emits = @ + 1]
        /\ confirm' = [confirm EXCEPT !.second = NoSecond]
  /\ UNCHANGED <<captureFrame, capPc, isCapturing, windowVisible, cancelPc, capRun>>

NextConfirmReentry ==
  \/ NextCapture
  \/ ConfirmSelectionAgain
  \/ SecondCropResolves
  \/ SecondConfirmCatches
  \/ SecondConfirmProceeds

SpecConfirmReentry == InitCapture /\ [][NextConfirmReentry]_vars

\* ------------------------------------------------------------------ image intake
\* useImageHandler: createImageFromFile / createImageFromBlob / createImageFromPath.
\* acq.pc, the position of the invocation in flight:
\*   "idle"     none
\*   "read"     readFileAsArrayBuffer / blob.arrayBuffer() / readFile(filePath)
\*   "remote"   invoke('process_image') inside processImage
\*   "rdecode"  getImageDimensions of the processed payload
\*   "lread"    readBlobAsBase64 of the fallback
\*   "ldecode"  getImageDimensions of the raw data in the fallback
\*   "compress" compressImage
\* acq.remote: "none" | "called" | "failed" (process_image rejected) |
\*   "undecodable" (its payload did not decode); acq.local: the catch block has started.

SUPPORTED_IMAGE_TYPES ==
  {"image/png", "image/jpeg", "image/jpg", "image/gif", "image/webp", "image/bmp"}

MAX_IMAGE_SIZE == 5 * 1024 * 1024

MAX_IMAGE_DIMENSION == 4096

\* byte lengths and pixel sides the inputs are drawn from
RawSizes == {1024, MAX_IMAGE_SIZE \div 2, MAX_IMAGE_SIZE \div 2 + 1, MAX_IMAGE_SIZE,
             MAX_IMAGE_SIZE + 1}
RawSides == {1, 20, MAX_IMAGE_DIMENSION, MAX_IMAGE_DIMENSION + 1, 6144, 2 * MAX_IMAGE_DIMENSION + 1}

\* raw bytes with the picture they decode to; a corrupt or empty input decodes to none
RawImages ==
  [size : RawSizes, width : RawSides, height : RawSides, decodes : {TRUE}]
    \cup [size : {0, 1024, MAX_IMAGE_SIZE + 1}, width : {0}, height : {0}, decodes : {FALSE}]

\* file.type of a File
FileTypes == {"image/png", "image/jpeg", "image/svg+xml", "text/plain"}

\* blob.type and the optional mimeType argument ("" for absent)
BlobTypes == {"", "image/gif", "image/tiff"}
MimeTypeArgs == {"", "image/webp", "application/pdf"}

UpperCase == <<"A","B","C","D","E","F","G","H","I","J","K","L","M",
               "N","O","P","Q","R","S","T","U","V","W","X","Y","Z">>
LowerCase == <<"a","b","c","d","e","f","g","h","i","j","k","l","m",
               "n","o","p","q","r","s","t","u","v","w","x","y","z">>

\* String.prototype.toLowerCase
ToLowerCase(str) ==
  [i \in 1..Len(str) |->
     IF \E k \in 1..Len(UpperCase) : UpperCase[k] = str[i]
     THEN LowerCase[CHOOSE k \in 1..Len(UpperCase) : UpperCase[k] = str[i]]
     ELSE str[i]]

\* filePath.split('.').pop(): the text after the last '.', the whole path without one
LastSegment(filePath) ==
  LET dots == {i \in 1..Len(filePath) : filePath[i] = "."}
      from == IF dots = {} THEN 1 ELSE (CHOOSE i \in dots : \A j \in dots : j <= i) + 1
  IN SubSeq(filePath, from, Len(filePath))

\* createImageFromPath: mimeTypeMap[ext] || 'image/png'
MimeTypeOfPath(filePath) ==
  LET ext == ToLowerCase(LastSegment(filePath)) IN
  CASE ext = <<"p","n","g">> -> "image/png"
    [] ext = <<"j","p","g">> -> "image/jpeg"
    [] ext = <<"j","p","e","g">> -> "image/jpeg"
    [] ext = <<"g","i","f">> -> "image/gif"
    [] ext = <<"w","e","b","p">> -> "image/webp"
    [] ext = <<"b","m","p">> -> "image/bmp"
    [] OTHER -> "image/png"

\* createImageFromBlob: mimeType || blob.type || 'image/png'
MimeTypeOfBlob(mimeType, blobType) ==
  IF mimeType # "" THEN mimeType ELSE IF blobType # "" THEN blobType ELSE "image/png"

\* paths handed to createImageFromPath
PathPng == <<"/","a","/","b",".","p","n","g">>
PathUpperJpg == <<"/","a","/","c",".","J","P","G">>
PathSvg == <<"/","a","/","d",".","s","v","g">>
PathNoExt == <<"/","a","/","e">>
ImagePaths == {PathPng, PathUpperJpg, PathSvg, PathNoExt}

\* mutant of ValidateImageSizeThrows: the ceiling itself is refused, the ceiling plus
\* one passes
ValidateImageSizeOffByOne(size) == size = MAX_IMAGE_SIZE

\* validateImageSize(size) throws
ValidateImageSizeThrows(size) == size > MAX_IMAGE_SIZE

\* !SUPPORTED_IMAGE_TYPES.includes(type)
Unsupported(type) == type \notin SUPPORTED_IMAGE_TYPES

\* mutant of CompressDims: the scale is taken from the width alone
CompressDimsByWidth(width, height) ==
  IF width > MAX_IMAGE_DIMENSION \/ height > MAX_IMAGE_DIMENSION
  THEN [width |-> MAX_IMAGE_DIMENSION,
        height |-> Round(height * MAX_IMAGE_DIMENSION, width)]
  ELSE [width |-> width, height |-> height]

\* compressImage: the canvas size
CompressDims(width, height) ==
  IF width > MAX_IMAGE_DIMENSION \/ height > MAX_IMAGE_DIMENSION
  THEN [width |-> Round(width * MAX_IMAGE_DIMENSION, Max(width, height)),
        height |-> Round(height * MAX_IMAGE_DIMENSION, Max(width, height))]
  ELSE [width |-> width, height |-> height]

\* compressImage: outputType
OutputType(mimeType) == IF mimeType = "image/png" THEN "image/png" ELSE "image/jpeg"

\* compressImage: Math.round(compressedBase64.length * 0.75) of what canvas.toDataURL
\* returns: nothing for an empty canvas, otherwise whatever the encoder produces, which
\* can pass the ceiling only when the pixels themselves do
EncodedSizes(width, height) ==
  IF width = 0 \/ height = 0 THEN {0}
  ELSE {1024} \cup (IF width > (MAX_IMAGE_SIZE \div 4) \div height
                   THEN {MAX_IMAGE_SIZE + 1} ELSE {})

\* mutant of NeedsCompression: the size of the input is not looked at
NeedsCompressionBySidesOnly(raw) ==
  \/ raw.width > MAX_IMAGE_DIMENSION
  \/ raw.height > MAX_IMAGE_DIMENSION

\* the fallback compresses
NeedsCompression(raw) ==
  \/ raw.width > MAX_IMAGE_DIMENSION
  \/ raw.height > MAX_IMAGE_DIMENSION
  \/ 2 * raw.size > MAX_IMAGE_SIZE

\* String.fromCharCode(...fileData) of createImageFromPath's fallback passes every byte
\* as an argument: beyond the engine's argument limit (65536 on the smallest) the call
\* may throw a RangeError
SpreadMayThrow(size) == size > 65536

\* the processed payload of process_image and the picture it decodes to: re-encoded
\* within the size ceiling and scaled down to the dimension bound
RemoteArtifact(raw) ==
  LET long == Max(raw.width, raw.height) IN
  [id |-> "img", data |-> "processed", mimeType |-> "image/png",
   width |-> IF long > MAX_IMAGE_DIMENSION
             THEN Max(1, Round(raw.width * MAX_IMAGE_DIMENSION, long)) ELSE raw.width,
   height |-> IF long > MAX_IMAGE_DIMENSION
              THEN Max(1, Round(raw.height * MAX_IMAGE_DIMENSION, long)) ELSE raw.height,
   size |-> IF raw.size > 1024 THEN 1024 ELSE raw.size]

\* everything an image acquisition leaves alone
intakeFrame == <<envVars, handlerVars, mountPc, appVars, toast, isMinimized, text,
                 predefinedOptions, selectedOptions, fileReferences, calls, writeVars,
                 terminated, captureVars, fileVars>>

\* the invocation ends; the Tauri drop handler adds the image it was waiting for
\* (useDragDrop.ts 86-91) and only logs a rejection
Finish(a, kind, error, preview) ==
  /\ acq' = NoAcq
  /\ acqResult' = [kind |-> kind, error |-> error, preview |-> preview, of |-> a]
  /\ images' = IF a.caller = "drop" /\ kind = "ok" THEN Append(images, preview) ELSE images

Resolve(a, preview) == Finish(a, "ok", "", preview)
Reject(a, error) == Finish(a, "error", error, NoPreview)

\* mutant of AfterRemoteFailure: processImage's rethrown error leaves createImageFrom*
RemoteFailurePropagates(a) == Reject(a, "remote")

\* the catch block of createImageFrom*: the fallback starts with readBlobAsBase64, or
\* for a path with btoa(String.fromCharCode(...fileData))
AfterRemoteFailure(a) ==
  IF a.entry = "path"
  THEN \/ /\ acq' = [a EXCEPT !.local = TRUE, !.pc = "ldecode"]
          /\ UNCHANGED <<acqResult, images>>
       \/ /\ SpreadMayThrow(a.raw.size)
          /\ Reject([a EXCEPT !.local = TRUE], "range")
  ELSE /\ acq' = [a EXCEPT !.local = TRUE, !.pc = "lread"]
       /\ UNCHANGED <<acqResult, images>>

\* the invocation starts: the checks that throw before the first await; acqResult
\* follows the newest invocation only
Begin(entry, caller, path, raw, type, checked) ==
  LET a == [pc |-> "read", entry |-> entry, caller |-> caller, path |-> path,
            raw |-> raw, type |-> type,
            remote |-> "none", local |-> FALSE, processed |-> NoPreview] IN
  IF checked /\ Unsupported(type) THEN Reject(a, "unsupported")
  ELSE IF checked /\ ValidateImageSizeThrows(raw.size) THEN Reject(a, "too_large")
  ELSE acq' = a /\ acqResult' = NoResult /\ UNCHANGED images

\* createImageFromFile(file). An invocation keeps nothing from an earlier one, so a
\* behaviour follows one direct invocation from its input to its outcome.
CreateImageFromFile ==
  /\ acq.pc = "idle" /\ acqResult = NoResult
  /\ \E raw \in RawImages, type \in FileTypes : Begin("file", "api", << >>, raw, type, TRUE)
  /\ UNCHANGED intakeFrame

CreateImageFromBlob ==
  /\ acq.pc = "idle" /\ acqResult = NoResult
  /\ \E raw \in RawImages, blobType \in BlobTypes, mimeType \in MimeTypeArgs :
       Begin("blob", "api", << >>, raw, MimeTypeOfBlob(mimeType, blobType), TRUE)
  /\ UNCHANGED intakeFrame

\* createImageFromPath checks nothing before readFile
CreateImageFromPath ==
  /\ acq.pc = "idle" /\ acqResult = NoResult
  /\ \E raw \in RawImages, filePath \in ImagePaths :
       Begin("path", "api", filePath, raw, MimeTypeOfPath(filePath), FALSE)
  /\ UNCHANGED intakeFrame

\* the raw bytes are read; createImageFromPath validates their length now; then
\* processImage invokes process_image
ReadResolves ==
  /\ acq.pc = "read"
  /\ IF acq.entry = "path" /\ ValidateImageSizeThrows(acq.raw.size)
     THEN Reject(acq, "too_large")
     ELSE /\ acq' = [acq EXCEPT !.pc = "remote", !.remote = "called"]
          /\ UNCHANGED <<acqResult, images>>
  /\ UNCHANGED intakeFrame

ReadRejects ==
  /\ acq.pc = "read"
  /\ Reject(acq, "read")
  /\ UNCHANGED intakeFrame

\* process_image resolves with { data, mime_type, size }
ProcessImageReturns ==
  /\ acq.pc = "remote"
  /\ acq.raw.decodes
  /\ acq' = [acq EXCEPT !.pc = "rdecode", !.processed = RemoteArtifact(acq.raw)]
  /\ UNCHANGED <<acqResult, images, intakeFrame>>

\* process_image rejects; processImage logs and rethrows into the caller's catch
ProcessImageThrows ==
  /\ acq.pc = "remote"
  /\ AfterRemoteFailure([acq EXCEPT !.remote = "failed"])
  /\ UNCHANGED intakeFrame

\* getImageDimensions of the processed payload resolves: the preview is returned
RemoteDimensionsResolve ==
  /\ acq.pc = "rdecode"
  /\ Resolve(acq, acq.processed)
  /\ UNCHANGED intakeFrame

\* getImageDimensions of the processed payload rejects: the same catch block runs
RemoteDimensionsReject ==
  /\ acq.pc = "rdecode"
  /\ AfterRemoteFailure([acq EXCEPT !.remote = "undecodable", !.processed = NoPreview])
  /\ UNCHANGED intakeFrame

\* readBlobAsBase64 of the fallback
LocalReadResolves ==
  /\ acq.pc = "lread"
  /\ acq' = [acq EXCEPT !.pc = "ldecode"]
  /\ UNCHANGED <<acqResult, images, intakeFrame>>

LocalReadRejects ==
  /\ acq.pc = "lread"
  /\ Reject(acq, "read")
  /\ UNCHANGED intakeFrame

\* getImageDimensions of the raw data: a picture that needs no compression is returned
\* as it is
LocalDimensionsResolve ==
  /\ acq.pc = "ldecode"
  /\ acq.raw.decodes
  /\ IF NeedsCompression(acq.raw)
     THEN /\ acq' = [acq EXCEPT !.pc = "compress"]
          /\ UNCHANGED <<acqResult, images>>
     ELSE Resolve(acq, [id |-> "img", data |-> "raw", mimeType |-> acq.type,
                        width |-> acq.raw.width, height |-> acq.raw.height,
                        size |-> acq.raw.size])
  /\ UNCHANGED intakeFrame

\* getImageDimensions of the raw data: img.onerror
LocalDimensionsReject ==
  /\ acq.pc = "ldecode"
  /\ ~acq.raw.decodes
  /\ Reject(acq, "decode")
  /\ UNCHANGED intakeFrame

\* compressImage resolves with the canvas re-encoded
CompressImageResolves ==
  /\ acq.pc = "compress"
  /\ LET dims == CompressDims(acq.raw.width, acq.raw.height) IN
     \E size \in EncodedSizes(dims.width, dims.height) :
       Resolve(acq, [id |-> "img", data |-> IF size = 0 THEN "" ELSE "encoded",
                     mimeType |-> OutputType(acq.type),
                     width |-> dims.width, height |-> dims.height, size |-> size])
  /\ UNCHANGED intakeFrame

\* compressImage rejects: no 2d context
CompressImageRejects ==
  /\ acq.pc = "compress"
  /\ Reject(acq, "canvas")
  /\ UNCHANGED intakeFrame

PipelineSteps ==
  \/ ReadResolves
  \/ ReadRejects
  \/ ProcessImageReturns
  \/ ProcessImageThrows
  \/ RemoteDimensionsResolve
  \/ RemoteDimensionsReject
  \/ LocalReadResolves
  \/ LocalReadRejects
  \/ LocalDimensionsResolve
  \/ LocalDimensionsReject
  \/ CompressImageResolves
  \/ CompressImageRejects

NextImage ==
  \/ CreateImageFromFile
  \/ CreateImageFromBlob
  \/ CreateImageFromPath
  \/ PipelineSteps

\* the image handler used on its own, the popup mounted outside a session
SpecImage == InitCapture /\ [][NextImage]_vars

\* ---- paths (usePlatform, useFileHandler)
\* usePlatform Platform
AllPlatforms == {"macos", "windows", "linux", "unknown"}

\* usePlatform PATH_SEPARATORS
PATH_SEPARATORS == [macos |-> "/", windows |-> "\\", linux |-> "/", unknown |-> "/"]

\* getPathSeparator(platform)
GetPathSeparator(platform) == PATH_SEPARATORS[platform]

\* the character class [\\/] of normalizePath's pattern
IsSeparator(ch) == ch = "/" \/ ch = "\\"

\* path.replace(/[\\/]+/g, '/'): every maximal run of separators becomes one '/'
RECURSIVE ReplaceSeparatorRuns(_)
ReplaceSeparatorRuns(path) ==
  IF path = << >> THEN << >>
  ELSE IF IsSeparator(Head(path))
       THEN IF Len(path) > 1 /\ IsSeparator(path[2])
            THEN ReplaceSeparatorRuns(Tail(path))
            ELSE <<"/">> \o ReplaceSeparatorRuns(Tail(path))
       ELSE <<Head(path)>> \o ReplaceSeparatorRuns(Tail(path))

\* normalizePath(path, targetPlatform)
NormalizePath(path, targetPlatform) ==
  IF path = << >> THEN path
  ELSE LET normalized == ReplaceSeparatorRuns(path) IN
       IF GetPathSeparator(targetPlatform) = "\\"
       THEN [i \in 1..Len(normalized) |->
               IF normalized[i] = "/" THEN "\\" ELSE normalized[i]]
       ELSE normalized

\* ---- the intake handlers of the mounted popup

\* useFileHandler IMAGE_EXTENSIONS
IMAGE_EXTENSIONS ==
  { <<".","p","n","g">>, <<".","j","p","g">>, <<".","j","p","e","g">>, <<".","g","i","f">>,
    <<".","w","e","b","p">>, <<".","b","m","p">>, <<".","i","c","o">>, <<".","s","v","g">>,
    <<".","t","i","f","f">>, <<".","t","i","f">> }

\* mutant of GetFileExtension: the case of the extension is kept
GetFileExtensionCaseKept(filename) ==
  LET dots == {i \in 1..Len(filename) : filename[i] = "."} IN
  IF dots = {} \/ Len(filename) \in dots THEN << >>
  ELSE <<".">> \o LastSegment(filename)

\* getFileExtension(filename): from the last '.', lower case; '' without a dot or with
\* the dot last
GetFileExtension(filename) ==
  LET dots == {i \in 1..Len(filename) : filename[i] = "."} IN
  IF dots = {} \/ Len(filename) \in dots THEN << >>
  ELSE ToLowerCase(<<".">> \o LastSegment(filename))

\* isImageFile(filename)
IsImageFile(filename) == GetFileExtension(filename) \in IMAGE_EXTENSIONS

\* getFileName(path): the last part of the path normalized to '/', or the path itself
\* when that part is empty
GetFileName(path) ==
  LET normalizedPath == NormalizePath(path, "linux")
      slashes == {i \in 1..Len(normalizedPath) : normalizedPath[i] = "/"}
      from == IF slashes = {} THEN 1
              ELSE (CHOOSE i \in slashes : \A j \in slashes : j <= i) + 1
      last == SubSeq(normalizedPath, from, Len(normalizedPath))
  IN IF last = << >> THEN path ELSE last

\* formatFileReference(filename)
FormatFileReference(filename) == <<"@">> \o filename

\* createFileReference(file, fullPath): fullPath is << >> when it is not given
CreateFileReference(fileName, fullPath) ==
  [id |-> "file", displayName |-> FormatFileReference(fileName),
   path |-> IF fullPath # << >> THEN fullPath ELSE fileName,
   isImage |-> IsImageFile(fileName)]

\* createFileReferenceFromPath(path), detectPlatform() returning `platform`
CreateFileReferenceFromPath(path, platform) ==
  [id |-> "file", displayName |-> FormatFileReference(GetFileName(path)),
   path |-> NormalizePath(path, platform),
   isImage |-> IsImageFile(GetFileName(path))]

\* classifyPaths(paths): the loop pushes each path to imagePaths or to otherPaths
RECURSIVE ClassifyFrom(_, _, _)
ClassifyFrom(paths, imagePaths, otherPaths) ==
  IF paths = << >> THEN [imagePaths |-> imagePaths, otherPaths |-> otherPaths]
  ELSE IF IsImageFile(Head(paths))
       THEN ClassifyFrom(Tail(paths), Append(imagePaths, Head(paths)), otherPaths)
       ELSE ClassifyFrom(Tail(paths), imagePaths, Append(otherPaths, Head(paths)))

ClassifyPaths(paths) == ClassifyFrom(paths, << >>, << >>)

\* ---- the path functions applied on their own
\* the paths classifyPaths is given: the two of the documented example, an upper-case
\* extension, no extension, a dot in a directory name only, a Windows path
PathExampleTxt == <<"/","a","/","c",".","t","x","t">>
PathDotDir == <<"/","a",".","p","n","g","/","r">>
PathWinGif == <<"C",":","\\","x","\\","y",".","g","i","f">>
ClassifyPathSet == {PathPng, PathExampleTxt, PathUpperJpg, PathNoExt, PathDotDir, PathWinGif}

\* the longest list classifyPaths is given
MaxPaths == 3

PathLists == UNION { [1..n -> ClassifyPathSet] : n \in 0..MaxPaths }

\* source paths in either convention, mixed, with runs of separators, with a trailing
\* separator, a bare name and the empty string
PathText == <<"/","a","/","n",".","t","x","t">>
PathWin == <<"C",":","\\","x","\\","n",".","t","x","t">>
PathMixed == <<"C",":","/","x","\\","n",".","t","x","t">>
PathRuns == <<"/","a","/","/","n",".","t","x","t">>
PathMixedRun == <<"a","\\","/","\\","b">>
PathTrailing == <<"/","a","/">>
NameText == <<"n",".","t","x","t">>
NamePng == <<"b",".","p","n","g">>
SourcePaths == {PathText, PathWin, PathMixed, PathRuns, PathMixedRun, PathTrailing,
                NameText, << >>}

\* a File with the full path the caller passes along with it (<< >>: none)
SourceFiles ==
  [name : {NameText, NamePng}, fullPath : {<< >>, PathText, PathWin, PathMixed, PathRuns}]

PendingCall(fn, arg, platform) ==
  [fn |-> fn, arg |-> arg, platform |-> platform, done |-> FALSE, result |-> << >>]

PathCalls ==
  {PendingCall("classifyPaths", paths, "unknown") : paths \in PathLists}
    \cup {PendingCall("normalizePath", path, platform) :
            path \in SourcePaths, platform \in AllPlatforms}
    \cup {PendingCall("createFileReferenceFromPath", path, platform) :
            path \in SourcePaths, platform \in AllPlatforms}
    \cup {PendingCall("createFileReference", file, platform) :
            file \in SourceFiles, platform \in AllPlatforms}

\* everything a path function leaves alone
callFrame == <<exchangeVars, captureVars, acq, acqResult, modalVars, drop>>

Returns(result) ==
  /\ call' = [call EXCEPT !.done = TRUE, !.result = result]
  /\ UNCHANGED callFrame

ClassifyPathsCall ==
  /\ call.fn = "classifyPaths" /\ ~call.done
  /\ Returns(ClassifyPaths(call.arg))

\* normalizePath applied once, and again to its own result
NormalizePathCall ==
  /\ call.fn = "normalizePath" /\ ~call.done
  /\ LET once == NormalizePath(call.arg, call.platform) IN
     Returns([once |-> once, twice |-> NormalizePath(once, call.platform)])

CreateFileReferenceFromPathCall ==
  /\ call.fn = "createFileReferenceFromPath" /\ ~call.done
  /\ Returns(CreateFileReferenceFromPath(call.arg, call.platform))

CreateFileReferenceCall ==
  /\ call.fn = "createFileReference" /\ ~call.done
  /\ Returns(CreateFileReference(call.arg.name, call.arg.fullPath))

InitPaths ==
  /\ MountedIdle /\ fileReferences = << >>
  /\ AcqIdle /\ ModalIdle /\ drop = NoDrop
  /\ call \in PathCalls

NextPaths ==
  \/ ClassifyPathsCall
  \/ NormalizePathCall
  \/ CreateFileReferenceFromPathCall
  \/ CreateFileReferenceCall

SpecPaths == InitPaths /\ [][NextPaths]_vars

\* pictures on the clipboard or dragged into the window: a small one, one over the size
\* ceiling, one whose pixels are at the dimension bound, a corrupt one
SmallPicture == [size |-> 1024, width |-> 20, height |-> 20, decodes |-> TRUE]
HugeFile == [size |-> MAX_IMAGE_SIZE + 1, width |-> 20, height |-> 20, decodes |-> TRUE]
LargePicture == [size |-> MAX_IMAGE_SIZE \div 2 + 1, width |-> MAX_IMAGE_DIMENSION,
                 height |-> MAX_IMAGE_DIMENSION, decodes |-> TRUE]
CorruptFile == [size |-> 1024, width |-> 0, height |-> 0, decodes |-> FALSE]
IntakeRaws == {SmallPicture, HugeFile, LargePicture, CorruptFile}
IntakeTypes == {"image/png", "image/svg+xml", "text/plain"}
DroppedPaths == {PathPng, PathSvg, PathText}
DroppedNames == {<<"b",".","p","n","g">>, <<"n",".","t","x","t">>}

\* the icon processFile puts before a file name
DocIcon == "doc-icon"

\* the previews the paste and drop handlers build themselves
DirectPreview(raw, type) ==
  [id |-> "img", data |-> "raw", mimeType |-> type, width |-> raw.width,
   height |-> raw.height, size |-> raw.size]

CanAttach == ~terminated /\ Len(images) + Len(fileReferences) < MaxAttach

notAttachments == <<envVars, handlerVars, mountPc, appVars, toast, isMinimized, text,
                    predefinedOptions, selectedOptions, calls, writeVars, terminated,
                    captureVars>>

\* App.vue onPaste: the first image/* item of the clipboard is read and, once it has
\* decoded, added (img has no onerror handler)
OnPaste ==
  /\ CanAttach
  /\ \E raw \in IntakeRaws, type \in IntakeTypes :
       images' = IF type \in {"image/png", "image/svg+xml"} /\ raw.decodes
                 THEN Append(images, DirectPreview(raw, type))
                 ELSE images
  /\ UNCHANGED <<notAttachments, fileReferences, intakeVars>>

\* useDragDrop processFile(file): an image/* file is read, decoded and added; any other
\* file becomes a file reference
ProcessFile ==
  /\ CanAttach
  /\ \E raw \in IntakeRaws, type \in IntakeTypes, name \in DroppedNames :
       IF type \in {"image/png", "image/svg+xml"}
       THEN /\ images' = IF raw.decodes THEN Append(images, DirectPreview(raw, type))
                         ELSE images
            /\ UNCHANGED fileReferences
       ELSE /\ fileReferences' = Append(fileReferences,
                 [id |-> "file", name |-> name, displayName |-> <<DocIcon, " ">> \o name,
                  path |-> name, size |-> raw.size, mimeType |-> type,
                  isImage |-> FALSE, isDirectory |-> FALSE])
            /\ UNCHANGED images
  /\ UNCHANGED <<notAttachments, intakeVars>>

\* the 'tauri://drag-drop' listener with one path: classifyPaths, then
\* createImageFromPath for an image path (its result is added when it resolves), a file
\* reference for any other path
TauriDragDrop ==
  /\ CanAttach
  /\ acq.pc = "idle"
  /\ \E raw \in IntakeRaws, filePath \in DroppedPaths :
       IF IsImageFile(filePath)
       THEN /\ Begin("path", "drop", filePath, raw, MimeTypeOfPath(filePath), FALSE)
            /\ UNCHANGED <<fileReferences, fileVars>>
       ELSE /\ fileReferences' = Append(fileReferences, CreateFileReferenceFromPath(filePath, capPlatform))
            /\ UNCHANGED <<images, intakeVars>>
  /\ UNCHANGED notAttachments

NextIntake ==
  \/ OnPaste
  \/ ProcessFile
  \/ TauriDragDrop
  \/ ReadResolves
  \/ ReadRejects
  \/ ProcessImageReturns
  \/ ProcessImageThrows
  \/ RemoteDimensionsResolve
  \/ RemoteDimensionsReject
  \/ LocalDimensionsResolve
  \/ LocalDimensionsReject
  \/ CompressImageResolves
  \/ CompressImageRejects

SpecIntake == InitCapture /\ [][NextIntake]_vars

\* ------------------------------------------------------------------ file selection
\* FileSelectModal.vue with App.vue's handlers. dialogPc: "idle" | "open" (handleSelectFiles
\* waits for openTextFileDialog; the native dialog is modal to the window, so no other
\* handler of the popup runs until it returns).

\* FileSelectModal MAX_FILE_SIZE (declared, used by no handler)
MAX_FILE_SIZE == 5 * 1024 * 1024

\* FileSelectModal MAX_FILE_COUNT
MAX_FILE_COUNT == 10

\* files on disk: /<dir>/<letter>.md
DiskPath(dir, letter) == <<"/", dir, "/", letter, ".", "m", "d">>

\* the one file on disk that is larger than 5 MiB
BigPath == DiskPath("n", "B")

DiskSize(path) == IF path = BigPath THEN MAX_FILE_SIZE + 1 ELSE 1024

\* references attached earlier by drag and drop, which counts nothing
ExistingLetters == <<"a", "b", "c", "d", "e", "f", "g", "h", "i", "j", "k">>

Existing(k) ==
  [i \in 1..k |-> CreateFileReferenceFromPath(DiskPath("e", ExistingLetters[i]), "linux")]

ExistingChoices == {Existing(0), Existing(8), Existing(9), Existing(11)}

\* what the user may pick in one dialog: nothing, three files, two files of the same
\* name from two directories (a search or recent-files view), a file whose name is
\* attached already followed by a new one, the large file
DialogBatches ==
  { << >>,
    <<DiskPath("n", "x"), DiskPath("n", "y"), DiskPath("n", "z")>>,
    <<DiskPath("n", "x"), DiskPath("m", "x")>>,
    <<DiskPath("m", "a"), DiskPath("n", "y")>>,
    <<BigPath>> }

\* createFileReferencesFromPaths(paths)
CreateFileReferencesFromPaths(paths, platform) ==
  [i \in 1..Len(paths) |-> CreateFileReferenceFromPath(paths[i], platform)]

\* FileSelectModal totalCount
TotalCount == Len(fileReferences) + Len(selectedFiles)

\* FileSelectModal canAddMore
CanAddMore == TotalCount < MAX_FILE_COUNT

\* FileSelectModal isDuplicate(newFile)
IsDuplicate(newFile) ==
  \/ \E i \in 1..Len(fileReferences) :
        GetFileName(fileReferences[i].path) = GetFileName(newFile.path)
  \/ \E i \in 1..Len(selectedFiles) :
        GetFileName(selectedFiles[i].path) = GetFileName(newFile.path)

\* mutant of CountLimitReached: one file more is let through
CountLimitReachedLate(count) == count > MAX_FILE_COUNT

\* handleSelectFiles: totalCount.value + newFiles.length >= MAX_FILE_COUNT
CountLimitReached(count) == count >= MAX_FILE_COUNT

\* handleSelectFiles: the loop over the files the dialog returned
RECURSIVE SelectLoop(_, _, _)
SelectLoop(files, newFiles, newErrors) ==
  IF files = << >> THEN [newFiles |-> newFiles, newErrors |-> newErrors]
  ELSE IF IsDuplicate(Head(files))
       THEN SelectLoop(Tail(files), newFiles, Append(newErrors, "duplicate"))
       ELSE IF CountLimitReached(TotalCount + Len(newFiles))
            THEN [newFiles |-> newFiles, newErrors |-> Append(newErrors, "limit")]
            ELSE SelectLoop(Tail(files), Append(newFiles, Head(files)), newErrors)

\* everything the modal's handlers leave alone
modalFrame == <<notAttachments, images, acq, acqResult, call, drop>>

\* App.vue handleSelectFiles: the modal opens
OpenFileSelectModal ==
  /\ ~showFileSelectModal
  /\ showFileSelectModal' = TRUE
  /\ UNCHANGED <<selectedFiles, errors, dialogPc, fileReferences, modalFrame>>

\* FileSelectModal handleSelectFiles up to its await (the button is disabled unless
\* canAddMore)
HandleSelectFiles ==
  /\ showFileSelectModal /\ dialogPc = "idle"
  /\ CanAddMore
  /\ errors' = << >>
  /\ dialogPc' = "open"
  /\ UNCHANGED <<showFileSelectModal, selectedFiles, fileReferences, modalFrame>>

\* openTextFileDialog returns (nothing when the dialog was dismissed or failed); the
\* rest of handleSelectFiles runs
OpenTextFileDialogReturns ==
  /\ dialogPc = "open"
  /\ \E paths \in DialogBatches :
       LET files == CreateFileReferencesFromPaths(paths, capPlatform)
           out == SelectLoop(files, << >>, << >>) IN
       /\ selectedFiles' = selectedFiles \o out.newFiles
       /\ errors' = out.newErrors
  /\ dialogPc' = "idle"
  /\ UNCHANGED <<showFileSelectModal, fileReferences, modalFrame>>

\* FileSelectModal removeFile(id) of the i-th selected file
RemoveFile ==
  /\ showFileSelectModal /\ dialogPc = "idle"
  /\ \E i \in 1..Len(selectedFiles) :
       selectedFiles' = SubSeq(selectedFiles, 1, i - 1)
                          \o SubSeq(selectedFiles, i + 1, Len(selectedFiles))
  /\ UNCHANGED <<showFileSelectModal, errors, dialogPc, fileReferences, modalFrame>>

\* FileSelectModal handleConfirm (disabled with nothing selected) and App.vue
\* handleFileSelectConfirm: every selected file is added to the store
HandleConfirm ==
  /\ showFileSelectModal /\ dialogPc = "idle"
  /\ selectedFiles # << >>
  /\ fileReferences' = fileReferences \o selectedFiles
  /\ selectedFiles' = << >>
  /\ errors' = << >>
  /\ showFileSelectModal' = FALSE
  /\ UNCHANGED <<dialogPc, modalFrame>>

\* FileSelectModal handleClose
HandleClose ==
  /\ showFileSelectModal /\ dialogPc = "idle"
  /\ selectedFiles' = << >>
  /\ errors' = << >>
  /\ showFileSelectModal' = FALSE
  /\ UNCHANGED <<dialogPc, fileReferences, modalFrame>>

\* the popup mounted outside a session, with what drag and drop attached before
InitFileSelect ==
  /\ MountedIdle /\ AcqIdle /\ call = NoCall /\ ModalIdle /\ drop = NoDrop
  /\ fileReferences \in ExistingChoices

NextFileSelect ==
  \/ OpenFileSelectModal
  \/ HandleSelectFiles
  \/ OpenTextFileDialogReturns
  \/ RemoveFile
  \/ HandleConfirm
  \/ HandleClose

SpecFileSelect == InitFileSelect /\ [][NextFileSelect]_vars

\* ------------------------------------------------------------------ the HTML5 drop
\* useDragDrop onHtml5Drop with processEntry and processFile. drop.status: "none" |
\* "pending" | "resolved" | "rejected" (how the promise of onHtml5Drop stands);
\* drop.via: "items" (dataTransfer.items) | "files" (the fallback loop over
\* dataTransfer.files). The state of a dropped item:
\*   "queued"  the fallback loop has not reached it
\*   "entry"   processEntry waits for fileEntry.file
\*   "read"    processFile waits for the FileReader
\*   "decode"  processFile waits for the Image
\*   "done"    its promise resolved        "failed"  its promise rejected
\*   "hung"    processFile rejected inside the fileEntry.file callback, which never
\*             calls resolve or reject: the promise of processEntry stays pending

\* the icon processEntry puts before a folder name
FolderIcon == "folder"

DirName == <<"d">>
NestedText == <<"/","d","/","n",".","t","x","t">>
NestedDeepText == <<"/","d","/","s","/","m",".","t","x","t">>

\* what can be dragged into the window: a text file, a picture that decodes, a picture
\* that does not, a directory holding a file and a subdirectory with a file
DraggedThings ==
  { [kind |-> "file", name |-> NameText, type |-> "text/plain", raw |-> SmallPicture,
     nested |-> << >>],
    [kind |-> "file", name |-> NamePng, type |-> "image/png", raw |-> SmallPicture,
     nested |-> << >>],
    [kind |-> "file", name |-> NamePng, type |-> "image/png", raw |-> CorruptFile,
     nested |-> << >>],
    [kind |-> "directory", name |-> DirName, type |-> "", raw |-> NoRaw,
     nested |-> <<NestedText, NestedDeepText>>] }

\* the most things dragged at once
MaxDropItems == 2

\* a dropped item: the dragged thing, whether webkitGetAsEntry gives an entry for it,
\* and where its processing stands
DroppedItems == [thing : DraggedThings, entry : BOOLEAN, state : {"queued"}]

DropLists == UNION { [1..n -> DroppedItems] : n \in 1..MaxDropItems }

\* entry.fullPath
FullPath(item) == <<"/">> \o item.thing.name

\* processEntry: folderRef
FolderRef(item) ==
  [id |-> "folder", name |-> item.thing.name,
   displayName |-> <<FolderIcon, " ">> \o item.thing.name, path |-> FullPath(item),
   size |-> 0, mimeType |-> "inode/directory", isImage |-> FALSE, isDirectory |-> TRUE]

\* processFile: fileRef, fullPath given by processEntry only
FileRef(item, fromEntry) ==
  [id |-> "file", name |-> item.thing.name,
   displayName |-> <<DocIcon, " ">> \o item.thing.name,
   path |-> IF fromEntry THEN FullPath(item) ELSE item.thing.name,
   size |-> item.thing.raw.size,
   mimeType |-> IF item.thing.type = "" THEN "application/octet-stream" ELSE item.thing.type,
   isImage |-> FALSE, isDirectory |-> FALSE]

\* processFile: file.type.startsWith('image/')
IsImageType(type) == type \in {"image/png", "image/jpeg", "image/svg+xml"}

\* processFile(file, fullPath) up to its first wait: an image starts the FileReader,
\* any other file is added as a reference and the promise resolves
ProcessFileStarts(item, fromEntry, refs) ==
  IF IsImageType(item.thing.type)
  THEN [item |-> [item EXCEPT !.state = "read"], refs |-> refs]
  ELSE [item |-> [item EXCEPT !.state = "done"], refs |-> Append(refs, FileRef(item, fromEntry))]

\* mutant of StartItems: the loop ends at the first item without an entry
RECURSIVE StartItemsUntilNoEntry(_, _, _)
StartItemsUntilNoEntry(items, k, refs) ==
  IF k > Len(items) \/ ~items[k].entry THEN [items |-> items, refs |-> refs]
  ELSE IF items[k].thing.kind = "directory"
       THEN StartItemsUntilNoEntry([items EXCEPT ![k].state = "done"], k + 1,
                                   Append(refs, FolderRef(items[k])))
       ELSE StartItemsUntilNoEntry([items EXCEPT ![k].state = "entry"], k + 1, refs)

\* the loop of onHtml5Drop over dataTransfer.items: processEntry(entry) for an item with
\* an entry (a directory is added as a folder reference at once, a file waits for
\* fileEntry.file), processFile(getAsFile()) for an item without
RECURSIVE StartItems(_, _, _)
StartItems(items, k, refs) ==
  IF k > Len(items) THEN [items |-> items, refs |-> refs]
  ELSE LET item == items[k] IN
       IF item.entry
       THEN IF item.thing.kind = "directory"
            THEN StartItems([items EXCEPT ![k].state = "done"], k + 1,
                            Append(refs, FolderRef(item)))
            ELSE StartItems([items EXCEPT ![k].state = "entry"], k + 1, refs)
       ELSE LET out == ProcessFileStarts(item, FALSE, refs) IN
            StartItems([items EXCEPT ![k] = out.item], k + 1, out.refs)

\* the fallback loop `for (const file of files) await processFile(file)`: it goes on
\* from the first file not reached yet until a file has to be waited for
RECURSIVE RunFiles(_, _)
RunFiles(items, refs) ==
  LET queued == {k \in 1..Len(items) : items[k].state = "queued"} IN
  IF queued = {} THEN [items |-> items, refs |-> refs]
  ELSE LET k == CHOOSE i \in queued : \A j \in queued : i <= j
           out == ProcessFileStarts(items[k], FALSE, refs) IN
       IF out.item.state = "done"
       THEN RunFiles([items EXCEPT ![k] = out.item], out.refs)
       ELSE [items |-> [items EXCEPT ![k] = out.item], refs |-> out.refs]

AllDone(items) == \A k \in 1..Len(items) : items[k].state = "done"

\* how the promise of onHtml5Drop stands after a step: Promise.all (and the awaited
\* processFile of the fallback loop) rejects with the first rejection and resolves
\* once every promise has resolved
Joined(status, items, rejected) ==
  IF status # "pending" THEN status
  ELSE IF rejected THEN "rejected"
  ELSE IF AllDone(items) THEN "resolved" ELSE "pending"

\* everything a drop leaves alone
dropFrame == <<notAttachments, acq, acqResult, call, modalVars>>

\* onHtml5Drop(event) up to its first wait
OnHtml5Drop ==
  /\ drop.status = "none"
  /\ \E items \in DropLists, via \in {"items", "files"} :
       /\ via = "files" => \A k \in 1..Len(items) : ~items[k].entry
       /\ LET out == IF via = "items" THEN StartItems(items, 1, fileReferences)
                     ELSE RunFiles(items, fileReferences) IN
          /\ drop' = [status |-> Joined("pending", out.items, FALSE), via |-> via,
                      items |-> out.items]
          /\ fileReferences' = out.refs
  /\ UNCHANGED <<images, dropFrame>>

\* the item's promise has settled or hung: the fallback loop goes on after a resolved
\* one, and the promise of onHtml5Drop is looked at again
ItemSettles(k, state, newImages) ==
  LET settled == [drop.items EXCEPT ![k].state = state]
      out == IF drop.via = "files" /\ state = "done" /\ drop.status = "pending"
             THEN RunFiles(settled, fileReferences)
             ELSE [items |-> settled, refs |-> fileReferences] IN
  /\ drop' = [drop EXCEPT !.items = out.items,
                          !.status = Joined(drop.status, out.items, state = "failed")]
  /\ fileReferences' = out.refs
  /\ images' = newImages
  /\ UNCHANGED dropFrame

\* fileEntry.file calls back with the File: processFile(file, entry.fullPath) starts
FileEntryResolves ==
  \E k \in 1..Len(drop.items) :
    /\ drop.items[k].state = "entry"
    /\ LET out == ProcessFileStarts(drop.items[k], TRUE, fileReferences) IN
       /\ drop' = [drop EXCEPT !.items[k] = out.item,
                               !.status = Joined(drop.status,
                                                 [drop.items EXCEPT ![k] = out.item], FALSE)]
       /\ fileReferences' = out.refs
    /\ UNCHANGED <<images, dropFrame>>

\* fileEntry.file calls its error callback: reject(err)
FileEntryRejects ==
  \E k \in 1..Len(drop.items) :
    /\ drop.items[k].state = "entry"
    /\ ItemSettles(k, "failed", images)

\* reader.onload: the Image starts to load
ReaderLoads ==
  \E k \in 1..Len(drop.items) :
    /\ drop.items[k].state = "read"
    /\ drop' = [drop EXCEPT !.items[k].state = "decode"]
    /\ UNCHANGED <<images, fileReferences, dropFrame>>

\* img.onload: addImage and resolve
ImageLoads ==
  \E k \in 1..Len(drop.items) :
    /\ drop.items[k].state = "decode"
    /\ drop.items[k].thing.raw.decodes
    /\ ItemSettles(k, "done",
         Append(images, DirectPreview(drop.items[k].thing.raw, drop.items[k].thing.type)))

\* reader.onerror or img.onerror: processFile rejects. Called by onHtml5Drop its promise
\* is one of the joined ones; called in the fileEntry.file callback the rejection is
\* lost and processEntry's promise never settles
ProcessFileRejects ==
  \E k \in 1..Len(drop.items) :
    /\ \/ drop.items[k].state = "read"
       \/ drop.items[k].state = "decode" /\ ~drop.items[k].thing.raw.decodes
    /\ ItemSettles(k, IF drop.items[k].entry THEN "hung" ELSE "failed", images)

InitDrop == InitCapture

NextDrop ==
  \/ OnHtml5Drop
  \/ FileEntryResolves
  \/ FileEntryRejects
  \/ ReaderLoads
  \/ ImageLoads
  \/ ProcessFileRejects

SpecDrop == InitDrop /\ [][NextDrop]_vars

\* ------------------------------------------------------------------ properties
HasWrite == lastWrite # None
Written == lastWrite[1].response
WrittenBy(kind) == HasWrite /\ lastWrite[1].by = kind
\* the handler invocation has returned or thrown
Finished(c) == c.pc \in {"done", "failed"}

\* C1: write_response_file is invoked at most once per process, and exactly once
\* when the process ends after a submit or cancel that found a request loaded.
C1_WriteInvokedAtMostOnce ==
  /\ writeCount <= 1
  /\ (terminated /\ \E c \in Calls : c.req # None) => writeCount = 1

C3_ExitOnlyAfterWriteCompleted ==
  \A c \in Calls :
    (c.exit \/ c.pc \in {"close", "exit", "done"}) => c.write # "pending"

C3_Witness ==
  \E c \in Calls : c.kind = "submit" /\ c.write = "ok" /\ c.exit

\* C4: a cancel that found a request loaded writes {request_id = the request's id,
\* user_input = null, empty selected_options, images and file_references,
\* cancelled = true}; a cancel that found none makes no write and only closes.
C4_CancelResponse ==
  /\ WrittenBy("cancel") =>
       Written = [request_id |-> mcpRequest[1].id, user_input |-> None,
                  selected_options |-> << >>, images |-> << >>,
                  file_references |-> << >>, cancelled |-> TRUE]
  /\ \A c \in Calls :
       c.kind = "cancel" =>
         IF c.req # None
         THEN c.write # "none"
         ELSE c.write = "none" /\ c.pc \in {"close", "exit", "done"}
  /\ mcpRequest = None => writeCount = 0

\* a cancellation was written while the popup held text, a selection and an attachment
C4_Witness ==
  /\ WrittenBy("cancel")
  /\ Trim(text) # << >> /\ selectedOptions # << >>
  /\ Len(images) + Len(fileReferences) > 0

\* the parts of a submission: the selected texts, then the trimmed free text,
\* the empty ones left out
SubmittedParts ==
  LET NonEmpty(t) == t # << >>
  IN SelectSeq(SelectedTexts \o <<Trim(text)>>, NonEmpty)

\* C5 as stated: user_input is the selected option texts followed by the trimmed
\* free text, joined by single newlines, and cancelled = false.
\* (text and the selection do not change under SpecMounted.)
C5_UserInputIsJoinedParts ==
  WrittenBy("submit") =>
    /\ Written.cancelled = FALSE
    /\ Written.user_input =
         IF SubmittedParts = << >> THEN None ELSE Some(Join(SubmittedParts, <<"\n">>))

\* C5 amended: user_input is the selected option texts followed by the trimmed free
\* text, joined by single newlines, and then trimmed as a whole (null if nothing is
\* left), so white space at the outer ends of the joined string is dropped even when
\* it belongs to an option text; cancelled = false.
C5_UserInputIsTrimmedJoin ==
  WrittenBy("submit") =>
    /\ Written.cancelled = FALSE
    /\ Written.user_input =
         LET whole == Trim(Join(SubmittedParts, <<"\n">>))
         IN IF whole = << >> THEN None ELSE Some(whole)

\* selected ["Continue"], free text "ok" gave "Continue\nok"
C5_Witness ==
  /\ WrittenBy("submit")
  /\ Written.selected_options = <<Continue>>
  /\ Trim(text) = Ok
  /\ Written.user_input = Some(Continue \o <<"\n">> \o Ok)

\* C6: with a request loaded, a submit with no selection and empty or white-space-only
\* free text is not refused and writes user_input = null with cancelled = false.
C6_EmptySubmit ==
  (mcpRequest # None /\ mcpRequestFile # None /\ selectedOptions = << >> /\ Trim(text) = << >>) =>
    /\ toast = None \/ toast[1].message # "No MCP request active"
    /\ \A c \in Calls : c.kind = "submit" => c.write # "none"
    /\ WrittenBy("submit") =>
         /\ Written.user_input = None
         /\ Written.selected_options = << >>
         /\ Written.cancelled = FALSE

C6_Witness ==
  /\ WrittenBy("submit")
  /\ text = <<" ">> /\ selectedOptions = << >>
  /\ Written.user_input = None /\ ~Written.cancelled

\* the directory part and the file name of a path
LastSlash(path) ==
  LET slashes == { i \in 1..Len(path) : path[i] = "/" }
  IN IF slashes = {} THEN 0 ELSE CHOOSE i \in slashes : \A j \in slashes : j <= i
DirOf(path) == SubSeq(path, 1, LastSlash(path))
NameOf(path) == SubSeq(path, LastSlash(path) + 1, Len(path))
HasRequestName(path) ==
  /\ Len(NameOf(path)) >= Len(RequestMarker)
  /\ SubSeq(NameOf(path), 1, Len(RequestMarker)) = RequestMarker

\* C7: for a request path whose file name is mcp_request_<suffix>, the response is
\* written to the same directory under the name mcp_response_<suffix>, never to the
\* request path itself.
C7_ResponsePathKeepsDirectory ==
  (HasWrite /\ HasRequestName(mcpRequestFile[1])) =>
    /\ lastWrite[1].filePath =
         DirOf(mcpRequestFile[1]) \o ResponseMarker
           \o SubSeq(NameOf(mcpRequestFile[1]), Len(RequestMarker) + 1,
                     Len(NameOf(mcpRequestFile[1])))
    /\ lastWrite[1].filePath # mcpRequestFile[1]

\* the launch carried neither a request-file path nor the session-mode flag
NoSessionArgs == ~cliArgs.mcp_mode /\ ~Truthy(cliArgs.mcp_request_file)

\* C8: launched with neither a request file nor the mode flag, the handler stays
\* Uninitialized: the request is never read, mcpRequest stays null and no submit or
\* cancel ever invokes the write.
C8_NoArgsNoSession ==
  NoSessionArgs =>
    /\ ~isMcpMode /\ mcpRequestFile = None
    /\ mountPc # "loading"
    /\ mcpRequest = None
    /\ writeCount = 0 /\ lastWrite = None /\ calls = EmptyBag

\* such a launch mounted, and a submit was handled locally
C8_Witness ==
  /\ NoSessionArgs /\ mountPc = "mounted"
  /\ toast = SuccessToast

\* C9: when the request file named at launch cannot be read or parsed, loadMcpRequest returns null,
\* mcpRequest stays null, onMounted finishes with the demo content, and no response
\* is written afterwards.
C9_FailedLoadIsNotASession ==
  (mcpRequestFile # None /\ requestOnDisk = None) =>
    /\ mcpRequest = None
    /\ writeCount = 0 /\ lastWrite = None
    /\ \A c \in Calls : c.write = "none"
    /\ mountPc = "mounted" =>
         /\ mcpMessage = DemoMessage
         /\ mcpPredefinedOptions = DemoOptions
         /\ predefinedOptions = DemoOptions

\* the load failed, startup finished, and a submit and a cancel were made afterwards
C9_Witness ==
  /\ mcpRequestFile # None /\ requestOnDisk = None
  /\ mountPc = "mounted"
  /\ toast = ErrorToast("No MCP request active")
  /\ \E c \in Calls : c.kind = "cancel" /\ c.exit

\* ---- C10
\* a capture attempt that ended in an error: startCapture's catch has run to its end
\* ("error") or its showWindow() rejected ("unhandled")
CaptureFailed == capPc = "idle" /\ capRun.outcome \in {"error", "unhandled"}

C11_AccumulatedImagesBounded ==
  \A i \in 1..Len(images) : images[i].size <= MAX_IMAGE_SIZE

\* ---- C12
\* the latest createImageFrom* invocation has ended
Acquired == acq.pc = "idle" /\ acqResult.kind # "none"

\* C12: a raw input larger than 5 MiB is rejected before process_image is invoked and
\* before the local fallback starts, and yields no ImagePreview; no invocation gets
\* past reading an oversized input.
C12_OversizeRejectedBeforeProcessing ==
  /\ (Acquired /\ acqResult.of.raw.size > MAX_IMAGE_SIZE) =>
       /\ acqResult.kind = "error"
       /\ acqResult.preview = NoPreview
       /\ acqResult.of.remote = "none"
       /\ ~acqResult.of.local
  /\ acq.pc \notin {"idle", "read"} => acq.raw.size <= MAX_IMAGE_SIZE

\* createImageFromPath has read an oversized file and rejected it
C12_Witness ==
  /\ Acquired
  /\ acqResult.of.entry = "path"
  /\ acqResult.of.raw.size = MAX_IMAGE_SIZE + 1
  /\ acqResult.error = "too_large"

\* ---- C13
\* the MIME type an input declares: file.type, the type resolved for a blob, the type
\* the extension of a path stands for
DeclaredType(a) ==
  IF a.entry # "path" THEN a.type
  ELSE LET ext == GetFileExtension(a.path) IN
       CASE ext = <<".","p","n","g">> -> "image/png"
         [] ext = <<".","j","p","g">> -> "image/jpeg"
         [] ext = <<".","s","v","g">> -> "image/svg+xml"
         [] OTHER -> "application/octet-stream"

\* C13: an input whose declared MIME type is outside the allow-list fails with the
\* unsupported-format error before any processing, on every entry point.
C13_UnsupportedTypeRejected ==
  /\ (Acquired /\ DeclaredType(acqResult.of) \notin SUPPORTED_IMAGE_TYPES) =>
       /\ acqResult.kind = "error"
       /\ acqResult.error = "unsupported"
       /\ acqResult.of.remote = "none"
       /\ ~acqResult.of.local
  /\ acq.pc # "idle" => DeclaredType(acq) \in SUPPORTED_IMAGE_TYPES

\* ---- C14
\* what the local fallback of createImageFrom* can end with on the input of `a`
LocalOutcomes(a) ==
  LET dims == CompressDims(a.raw.width, a.raw.height)
      fail(e) == [kind |-> "error", error |-> e, preview |-> NoPreview]
      ok(pv) == [kind |-> "ok", error |-> "", preview |-> pv]
  IN (IF a.entry = "path"
      THEN (IF a.raw.size > 65536 THEN {fail("range")} ELSE {})
      ELSE {fail("read")})
     \cup
     (IF ~a.raw.decodes THEN {fail("decode")}
      ELSE IF a.raw.width > MAX_IMAGE_DIMENSION \/ a.raw.height > MAX_IMAGE_DIMENSION
              \/ a.raw.size > MAX_IMAGE_SIZE \div 2
      THEN {fail("canvas")} \cup
           {ok([id |-> "img", data |-> IF n = 0 THEN "" ELSE "encoded",
                mimeType |-> IF a.type = "image/png" THEN "image/png" ELSE "image/jpeg",
                width |-> dims.width, height |-> dims.height, size |-> n]) :
              n \in EncodedSizes(dims.width, dims.height)}
      ELSE {ok([id |-> "img", data |-> "raw", mimeType |-> a.type, width |-> a.raw.width,
                height |-> a.raw.height, size |-> a.raw.size])})

\* C14: when process_image rejects (or its payload does not decode) the invocation ends
\* as the local fallback ends on the same input, and never with the remote error.
C14_RemoteFailureFallsBack ==
  (Acquired /\ acqResult.of.remote \in {"failed", "undecodable"}) =>
    /\ acqResult.of.local
    /\ acqResult.error # "remote"
    /\ [kind |-> acqResult.kind, error |-> acqResult.error, preview |-> acqResult.preview]
         \in LocalOutcomes(acqResult.of)

\* process_image rejected and the fallback returned a preview
C14_Witness ==
  /\ Acquired
  /\ acqResult.of.remote = "failed"
  /\ acqResult.kind = "ok"
  /\ acqResult.preview.data \in {"raw", "encoded"}

\* ---- C15
\* a raw image of a supported type at or under the ceiling
ValidInput(a) ==
  /\ a.raw.decodes
  /\ a.type \in SUPPORTED_IMAGE_TYPES
  /\ a.raw.size <= MAX_IMAGE_SIZE

\* C15: for a valid input the invocation returns a preview with width > 0, height > 0
\* and size <= 5 MiB (a rejection can only come from a failed read or a missing canvas
\* context).
C15_ValidInputYieldsBoundedPreview ==
  (Acquired /\ ValidInput(acqResult.of)) =>
    /\ acqResult.kind = "ok" =>
         /\ acqResult.preview.width > 0
         /\ acqResult.preview.height > 0
         /\ acqResult.preview.size <= MAX_IMAGE_SIZE
    /\ acqResult.kind = "error" => acqResult.error \in {"read", "canvas"}

\* ---- C16
Abs(n) == IF n >= 0 THEN n ELSE -n

LongSide(r) == Max(r.width, r.height)

\* the source of the result exceeded the dimension bound and a preview came back
Downscaled == Acquired /\ acqResult.kind = "ok" /\ LongSide(acqResult.of.raw) > MAX_IMAGE_DIMENSION

\* the preview's aspect ratio is within 1% of the source's
AspectKept(raw, pv) ==
  Abs(pv.width * raw.height - raw.width * pv.height) <= (raw.width * pv.height) \div 100

\* each side of the preview is within 1 px of the source's side scaled by 4096 / long side
SidesScaled(raw, pv) ==
  /\ Abs(pv.width * LongSide(raw) - raw.width * MAX_IMAGE_DIMENSION) <= LongSide(raw)
  /\ Abs(pv.height * LongSide(raw) - raw.height * MAX_IMAGE_DIMENSION) <= LongSide(raw)

CaptureStates == {"idle", "capturing", "selecting"}

Accepted(rect) == rect.width > 10 /\ rect.height > 10

FullscreenLeft == ~windowChrome.maximized /\ windowChrome.decorations

\* C18: a confirmSelection runs, and a cropped result is emitted, only for a rectangle
\* whose width and height both exceed 10 px; the emitted result is the crop of the stored
\* raster and leaves the overlay idle outside fullscreen mode. While a side of the
\* selection is 10 px or less hasSelection is false and no step starts a confirm.
C18_ConfirmNeedsBothSidesAboveTen ==
  /\ [](/\ confirm.pc # "idle" => Accepted(confirm.rect)
        /\ selRun.emitted =>
             /\ Accepted(selRun.rect)
             /\ selRun.result = CropImage(selRun.raster, selRun.rect)
             /\ capState = "idle" /\ screenshotData = None /\ FullscreenLeft
        /\ (capState = "selecting" /\ ~Accepted(Selection)) => ~HasSelection(Selection))
  /\ [][(~Accepted(Selection) /\ confirm.pc = "idle") => confirm'.pc = "idle"]_vars

\* an 11 x 11 rectangle was confirmed and its crop emitted
C18_Witness ==
  /\ selRun.emitted
  /\ selRun.rect.width = 11 /\ selRun.rect.height = 11
  /\ selRun.result.data # ""
  /\ Len(images) = 1

\* ---- C19
\* C19: once a cancel issued in selecting has completed, the overlay is idle outside
\* fullscreen mode with no raster, and no result is emitted by a confirm of the capture
\* that was cancelled.
C19_CancelEmitsNoResult ==
  /\ selRun.cancelDone =>
       capState = "idle" /\ screenshotData = None /\ FullscreenLeft
  /\ ~(selRun.emitted /\ selRun.afterCancel)

\* ---- C20
NativeDone ==
  capRun.flow = "native" /\ capPc = "idle" /\ capRun.outcome \notin {"none", "running"}

\* the tool has run and exited with a non-zero code, or left no file to read
ToolCancelled ==
  /\ capRun.threw \notin {"n_prepare", "n_hide", "n_exec"}
  /\ capRun.code # 0 \/ (~capRun.read /\ ~capRun.file)

NullResult ==
  /\ capRun.outcome = "null"
  /\ capError = None /\ localError = None
  /\ windowVisible
  /\ capState = "idle"

C27_UndecodableFailsAndNoZeroSide ==
  /\ (Acquired /\ ~acqResult.of.raw.decodes) => acqResult.kind = "error"
  /\ (Acquired /\ acqResult.kind = "ok") =>
       /\ acqResult.preview.width # 0
       /\ acqResult.preview.height # 0

\* ---- C30
\* the fallback returned a preview
LocalPreview == Acquired /\ acqResult.kind = "ok" /\ acqResult.of.local

StoredAsIs == LocalPreview /\ acqResult.preview.data = "raw"

ReEncoded == LocalPreview /\ acqResult.preview.data # "raw"

SidesWithinBound(raw) ==
  raw.width <= MAX_IMAGE_DIMENSION /\ raw.height <= MAX_IMAGE_DIMENSION

\* a re-encoded preview keeps image/png and is image/jpeg for every other source type
ReEncodedType ==
  ReEncoded =>
    acqResult.preview.mimeType =
      (IF acqResult.of.type = "image/png" THEN "image/png" ELSE "image/jpeg")

\* C30 as stated: the fallback stores a picture as it is only if both sides are within
\* 4096 px and its size is below half of 5 MiB; every other preview of the fallback is
\* re-encoded, PNG as PNG and every other type as JPEG.
C30_AsIsOnlyBelowHalfCeiling ==
  /\ StoredAsIs =>
       /\ SidesWithinBound(acqResult.of.raw)
       /\ 2 * acqResult.of.raw.size < MAX_IMAGE_SIZE
  /\ ReEncodedType

\* C30 amended: the fallback stores a picture as it is exactly when both sides are
\* within 4096 px and its size is at most half of 5 MiB; every other preview of the
\* fallback is re-encoded, PNG as PNG and every other type as JPEG.
C30_AsIsExactlyUpToHalfCeiling ==
  /\ LocalPreview =>
       (StoredAsIs <=>
          /\ SidesWithinBound(acqResult.of.raw)
          /\ 2 * acqResult.of.raw.size <= MAX_IMAGE_SIZE)
  /\ StoredAsIs =>
       /\ acqResult.preview.width = acqResult.of.raw.width
       /\ acqResult.preview.height = acqResult.of.raw.height
       /\ acqResult.preview.mimeType = acqResult.of.type
  /\ ReEncodedType

\* a picture of exactly half the ceiling was stored as it is by the fallback
C30_Witness ==
  /\ StoredAsIs
  /\ 2 * acqResult.of.raw.size = MAX_IMAGE_SIZE

\* ---- C28
\* C28: while the capture of a startCapture is awaited no second startCapture begins:
\* at most one capture operation is in flight.
C28_AtMostOneCaptureInFlight == ~capRun.reentered

\* ---- C25
\* the path ends with `ext`, whatever the case of its letters
EndsWithIgnoringCase(path, ext) ==
  /\ Len(path) >= Len(ext)
  /\ ToLowerCase(SubSeq(path, Len(path) - Len(ext) + 1, Len(path))) = ext

HasImageExtension(path) == \E ext \in IMAGE_EXTENSIONS : EndsWithIgnoringCase(path, ext)

HasNoImageExtension(path) == ~HasImageExtension(path)

Classified == call.fn = "classifyPaths" /\ call.done

\* C25: classifyPaths returns in imagePaths the input paths whose lower-cased extension
\* is in the image allow-list and in otherPaths all the others, each in input order, so
\* that every input path is in exactly one of the two; ['/a/b.png', '/a/c.txt'] gives
\* ['/a/b.png'] and ['/a/c.txt'].
C25_ClassifyPartitionsByExtension ==
  Classified =>
    /\ call.result.imagePaths = SelectSeq(call.arg, HasImageExtension)
    /\ call.result.otherPaths = SelectSeq(call.arg, HasNoImageExtension)
    /\ Len(call.result.imagePaths) + Len(call.result.otherPaths) = Len(call.arg)
    /\ call.arg = <<PathPng, PathExampleTxt>> =>
         call.result = [imagePaths |-> <<PathPng>>, otherPaths |-> <<PathExampleTxt>>]

\* a list with an upper-case image extension between two other paths was classified
C25_Witness ==
  /\ Classified
  /\ call.arg = <<PathExampleTxt, PathUpperJpg, PathDotDir>>
  /\ call.result.imagePaths = <<PathUpperJpg>>

\* ---- C26
\* every separator of the path is the platform's
SeparatorsOf(path, platform) ==
  \A i \in 1..Len(path) : IsSeparator(path[i]) => path[i] = PATH_SEPARATORS[platform]

\* C26: a FileReference built by createFileReferenceFromPath or by createFileReference
\* stores a path whose separators are all the current platform's, and normalizePath
\* applied to its own result returns it unchanged.
C26_StoredPathUsesPlatformSeparators ==
  /\ (call.done /\ call.fn \in {"createFileReferenceFromPath", "createFileReference"}) =>
       SeparatorsOf(call.result.path, call.platform)
  /\ (call.done /\ call.fn = "normalizePath") => call.result.twice = call.result.once

\* ---- C21
\* the attached references followed by the selected ones
AttachedAndSelected == fileReferences \o selectedFiles

\* C21: no two attached or selected references have the same basename, whatever their
\* directories and whether they were picked in one dialog or in two.
C21_NoTwoReferencesShareBasename ==
  \A i, j \in 1..Len(AttachedAndSelected) :
    i # j => GetFileName(AttachedAndSelected[i].path) # GetFileName(AttachedAndSelected[j].path)

\* ---- C22
\* handleSelectFiles finishes in this step
SelectionStep == dialogPc = "open" /\ dialogPc' = "idle"

\* C22: the step that finishes a selection never takes the total of attached and
\* selected references above 10, leaves the attached references as they were and only
\* appends to the selected ones.
C22_SelectionKeepsTotalWithinTen ==
  [][SelectionStep =>
       /\ (TotalCount <= 10 => TotalCount' <= 10)
       /\ TotalCount' <= Max(TotalCount, 10)
       /\ fileReferences' = fileReferences
       /\ Len(selectedFiles') >= Len(selectedFiles)
       /\ SubSeq(selectedFiles', 1, Len(selectedFiles)) = selectedFiles]_vars

\* a batch was cut at the cap: the total is 10 with files selected and the limit reported
C22_Witness ==
  /\ dialogPc = "idle"
  /\ TotalCount = 10
  /\ selectedFiles # << >>
  /\ errors # << >> /\ errors[Len(errors)] = "limit"

\* ---- C23
\* C23: no selected reference is a file larger than 5 MiB.
C23_NoSelectedFileAboveFiveMiB ==
  \A i \in 1..Len(selectedFiles) : DiskSize(selectedFiles[i].path) <= 5 * 1024 * 1024

\* ---- C24
DropReported == drop.status \in {"resolved", "rejected"}

\* C24: onHtml5Drop settles only when every dropped item has finished, and no item is
\* left unprocessed because a sibling failed.
C24_DropReportsAfterEveryItem ==
  DropReported =>
    \A k \in 1..Len(drop.items) : drop.items[k].state \in {"done", "failed"}

\* ---- C29
HasReference(path, isDirectory) ==
  \E i \in 1..Len(fileReferences) :
    fileReferences[i].path = path /\ fileReferences[i].isDirectory = isDirectory

\* C29: once a drop through dataTransfer.items has resolved, every dropped directory has
\* a reference with isDirectory = true and every file nested in it, at any depth, has
\* been attached.
C29_DirectoryAndNestedFilesAttached ==
  (drop.status = "resolved" /\ drop.via = "items") =>
    \A k \in 1..Len(drop.items) :
      (drop.items[k].thing.kind = "directory" /\ drop.items[k].entry) =>
        /\ HasReference(FullPath(drop.items[k]), TRUE)
        /\ \A n \in 1..Len(drop.items[k].thing.nested) :
             HasReference(drop.items[k].thing.nested[n], FALSE)

\* ---- C31
\* the mouse is up in 'selecting' before and after the step
MouseStaysUp ==
  /\ capState = "selecting" /\ ~isSelecting
  /\ capState' = "selecting" /\ ~isSelecting'

\* C31: in 'selecting' the release of the mouse keeps the state and the rectangle and
\* neither crops nor emits anything, and while the mouse stays up no step (a mouse move
\* among them) changes the rectangle.
C31_ReleaseFreezesSelection ==
  [][/\ HandleMouseUp =>
          /\ capState' = "selecting"
          /\ selectionStart' = selectionStart /\ selectionEnd' = selectionEnd
          /\ confirm' = confirm /\ selRun' = selRun
          /\ images' = images /\ screenshotData' = screenshotData
     /\ MouseStaysUp =>
          selectionStart' = selectionStart /\ selectionEnd' = selectionEnd]_vars

\* a rectangle was dragged out and the mouse released, with nothing confirmed or cancelled
C31_Witness ==
  /\ capState = "selecting" /\ ~isSelecting
  /\ HasSelection(Selection)
  /\ confirm = NoConfirm /\ cancelPc = "idle" /\ selRun = NoSelRun

\* ---- C32
DroppedViaItems == drop.status # "none" /\ drop.via = "items"

\* the item went the way of a flat file: processFile(file) without a full path
TreatedAsFlatFile(item) ==
  IF item.thing.type \in {"image/png", "image/jpeg", "image/svg+xml"}
  THEN /\ item.state \in {"read", "decode", "done", "failed"}
       /\ item.state = "done" =>
            \E i \in 1..Len(images) :
              images[i].width = item.thing.raw.width /\ images[i].mimeType = item.thing.type
  ELSE /\ item.state = "done"
       /\ \E i \in 1..Len(fileReferences) :
            /\ fileReferences[i].path = item.thing.name
            /\ ~fileReferences[i].isDirectory

\* C32: in a drop through dataTransfer.items every item without an entry is processed
\* as a flat file, and every other item of the drop has been taken up as well.
C32_MissingEntryFallsBackToFlatFile ==
  DroppedViaItems =>
    /\ \A k \in 1..Len(drop.items) :
         ~drop.items[k].entry => TreatedAsFlatFile(drop.items[k])
    /\ \A k \in 1..Len(drop.items) : drop.items[k].state # "queued"

\* a drop whose first item had no entry and whose second had one resolved with both done
C32_Witness ==
  /\ DroppedViaItems /\ drop.status = "resolved"
  /\ Len(drop.items) = 2
  /\ ~drop.items[1].entry /\ drop.items[2].entry
  /\ drop.items[2].thing.kind = "file"
  /\ Len(fileReferences) + Len(images) = 2

\* ---- C33
\* a step in which write_response_file is invoked
WriteInvoked == writeCount' # writeCount

\* C33: write_response_file is invoked only while a request is loaded and the request-file
\* path is known, and the response it is handed carries the id of that request.
C33_WriteCarriesLoadedRequestId ==
  [][WriteInvoked =>
       /\ mcpRequest # None /\ mcpRequestFile # None
       /\ lastWrite' # None
       /\ lastWrite'[1].response.request_id = mcpRequest[1].id
       /\ mcpRequest' = mcpRequest /\ mcpRequestFile' = mcpRequestFile]_vars

\* a submitted response and then a cancel response were written for the loaded request
C33_Witness ==
  /\ writeCount = 2
  /\ WrittenBy("cancel")
  /\ mcpRequest # None /\ Written.request_id = mcpRequest[1].id

\* ---- C34
\* a session (flag without a request file, or a request file that failed to load) whose
\* startup has finished without a request
SessionWithoutRequest == isMcpMode /\ mountPc = "mounted" /\ mcpRequest = None

\* C34: in a session without a loaded request a submit only shows 'No MCP request active':
\* nothing is written, no handler is started, the feedback store keeps its content; the
\* only handlers in flight are cancels, and the process ends only through one of them.
C34_SubmitRefusedOnlyCancelExits ==
  [][SessionWithoutRequest =>
       /\ toast' # toast =>
            /\ toast' = ErrorToast("No MCP request active")
            /\ UNCHANGED <<storeVars, calls, writeVars, terminated>>
       /\ writeCount' = 0 /\ lastWrite' = None
       /\ \A c \in BagToSet(calls') : c.kind = "cancel" /\ c.write = "none"
       /\ terminated' # terminated =>
            \E c \in Calls : c.kind = "cancel" /\ c.pc = "exit" /\ c.exit]_vars

\* with feedback accumulated, the submit was refused, and a cancel then ended the process
C34_Witness ==
  /\ SessionWithoutRequest
  /\ toast = ErrorToast("No MCP request active")
  /\ text # << >> /\ images # << >>
  /\ terminated

\* ---- C35
\* C35: whenever the capture machine is in 'selecting' the full-screen raster is stored,
\* and a step that clears the raster leaves the machine in 'idle'.
C35_RasterPresentWhileSelecting ==
  [][/\ capState' = "selecting" => screenshotData' # None
     /\ (screenshotData # None /\ screenshotData' = None) => capState' = "idle"]_vars

\* ---- C36
\* C36: the confirmSelection invocations made on one selection emit 'capture' at most
\* once between them, so one capture session adds at most one image.
C36_OneResultPerCaptureSession == selRun.emits <= 1

\* ---- C37
\* t is one of the lines of s
IsLineOf(t, s) ==
  \E i \in 1..(Len(s) + 1) :
    LET j == i + Len(t) - 1
    IN /\ j <= Len(s)
       /\ SubSeq(s, i, j) = t
       /\ i = 1 \/ s[i - 1] = "\n"
       /\ j = Len(s) \/ s[j + 1] = "\n"

\* t ends s as a line of its own
IsLastLineOf(t, s) ==
  /\ Len(t) <= Len(s)
  /\ SubSeq(s, Len(s) - Len(t) + 1, Len(s)) = t
  /\ Len(t) = Len(s) \/ s[Len(s) - Len(t)] = "\n"

ToggledOn(sel) == { sel[k] : k \in 1..Len(sel) }

\* in a session the selection changes by toggleOption, which flips one index, or by
\* setPredefinedOptions at the end of onMounted, which clears it
SelectionFollowsToggles ==
  /\ (isMcpMode /\ mountPc' = mountPc /\ selectedOptions' # selectedOptions) =>
       /\ Cardinality((ToggledOn(selectedOptions) \ ToggledOn(selectedOptions'))
                      \cup (ToggledOn(selectedOptions') \ ToggledOn(selectedOptions))) = 1
       /\ Cardinality(ToggledOn(selectedOptions')) = Len(selectedOptions')
  /\ (mountPc' # mountPc /\ predefinedOptions' # predefinedOptions) =>
       selectedOptions' = << >>

\* a step that hands a submitted response to write_response_file
SubmitWritten == WriteInvoked /\ lastWrite'[1].by = "submit"

\* the response carries the texts of the options toggled on, once each
CarriesToggledTexts(response) ==
  /\ Len(response.selected_options) = Len(selectedOptions)
  /\ \A k \in 1..Len(selectedOptions) :
       response.selected_options[k] = predefinedOptions[selectedOptions[k]]

\* C37 as stated: selected_options is exactly the texts of the options toggled on,
\* and each of them is a line of user_input.
C37_SelectedTextsAreLinesOfUserInput ==
  [][/\ SelectionFollowsToggles
     /\ SubmitWritten =>
          LET response == lastWrite'[1].response
          IN /\ CarriesToggledTexts(response)
             /\ \A k \in 1..Len(response.selected_options) :
                  /\ response.user_input # None
                  /\ IsLineOf(response.selected_options[k], response.user_input[1])]_vars

\* C37 amended: selected_options is exactly the texts of the options toggled on, and
\* each of them is a line of user_input except that the white space user_input would
\* start or end with is dropped: the first selected text appears without its leading
\* white space, and a text that ends user_input without its trailing white space.
C37_SelectedTextsAreLinesUpToOuterTrim ==
  [][/\ SelectionFollowsToggles
     /\ SubmitWritten =>
          LET response == lastWrite'[1].response
          IN /\ CarriesToggledTexts(response)
             /\ \A k \in 1..Len(response.selected_options) :
                  LET t == response.selected_options[k]
                      shown == IF k = 1 THEN TrimStart(t) ELSE t
                  IN /\ response.user_input # None
                     /\ \/ IsLineOf(shown, response.user_input[1])
                        \/ IsLastLineOf(TrimEnd(shown), response.user_input[1])]_vars

\* " No" was toggled on before "Continue", and the submitted user_input starts with "No"
C37_Witness ==
  /\ WrittenBy("submit")
  /\ Written.selected_options = <<PaddedNo, Continue>>
  /\ Written.user_input = Some(<<"N","o","\n">> \o Continue)

====
